---- MODULE Spec2Model ----
(***************************************************************************)
(* Workshop notebooks: a from-scratch perceptron, the same perceptron with *)
(* Equinox and Optax, and a neural ODE.  The module models the data        *)
(* preparation, the forward pass, the training drivers and the evaluator   *)
(* of the notebooks as state machines.                                     *)
(***************************************************************************)
EXTENDS Integers, Sequences, FiniteSets, TLC

VARIABLES
    pc,                 \* position of the notebook cell being executed
    notebook,           \* "equinox", "scratch" or "node"
    key,                \* the notebook's global PRNG key
    steps,              \* number of training steps asked for
    BATCH_SIZE,         \* batch size asked for
    LEARN_RATE,         \* learning rate asked for
    i,                  \* loop variable of the training loop
    train_key,          \* key of the current step
    inds,               \* batch indices of the current step
    x,                  \* input slice of the current step
    y,                  \* target slice of the current step
    model,              \* the parameter collection being trained
    nn,                 \* the from-scratch network object (weights, bias)
    opt_state,          \* state of the library optimiser
    grad,               \* gradient of the current step
    updates,            \* parameter update of the current step
    loss_value,         \* loss of the current step
    loss_log,           \* the loss log
    emitted,            \* what tqdm.write printed: <<step, loss>> pairs
    inds_log,           \* history: the index vector drawn at every step
    prev_run,           \* history: the logs of the previous run of the cell
    y_test,             \* test labels
    test_outputs,       \* network outputs on the test set
    y_test_predictions, \* arg-max of the network outputs
    confusion_matrix,   \* the confusion matrix
    arg,                \* inputs of the function under test
    ret                 \* results of the function under test

vars == <<pc, notebook, key, steps, BATCH_SIZE, LEARN_RATE, i, train_key, inds,
          x, y, model, nn, opt_state, grad, updates, loss_value, loss_log,
          emitted, inds_log, prev_run, y_test, test_outputs,
          y_test_predictions, confusion_matrix, arg, ret>>

trainVars == <<notebook, key, steps, BATCH_SIZE, LEARN_RATE, i, train_key, inds,
               x, y, model, nn, opt_state, grad, updates, loss_value, loss_log,
               emitted, inds_log, prev_run>>

evalVars == <<y_test, test_outputs, y_test_predictions, confusion_matrix>>

None == <<>>

(***************************************************************************)
(* Bounds of the model.                                                    *)
(***************************************************************************)
\* number of test samples the evaluator is run on
TestSize == 3
\* fixed-point resolution of the floating-point model: one unit is 1/Scale
Scale == 64
\* largest finite magnitude of the floating-point model, in units of 1/Scale
FMaxRaw == 8191

(***************************************************************************)
(* Program constants.                                                      *)
(***************************************************************************)
NUM_CLASSES == 10

Classes == 0 .. (NUM_CLASSES - 1)

Range(s) == {s[k] : k \in DOMAIN s}

RECURSIVE SumSeq(_)
SumSeq(s) == IF s = <<>> THEN 0 ELSE Head(s) + SumSeq(Tail(s))

(***************************************************************************)
(* Floating point.  A float is <<class, v>>: a finite value v/Scale, plus  *)
(* or minus infinity, or NaN.  A finite result beyond FMaxRaw overflows to *)
(* an infinity; NaN is absorbing; inf - inf, 0 * inf, inf / inf and 0 / 0  *)
(* are NaN.  The operations are functions on the floats.                   *)
(***************************************************************************)
Floats == {"fin", "pinf", "ninf", "nan"} \X Int
NaN == <<"nan", 0>>
PInf == <<"pinf", 0>>
NInf == <<"ninf", 0>>
FinOf[v \in Int] ==
    IF v > FMaxRaw THEN PInf ELSE IF v < -FMaxRaw THEN NInf ELSE <<"fin", v>>
Fin(v) == FinOf[v]
Real(n) == Fin(n * Scale)
IsFin(a) == a[1] = "fin"
IsNaN(a) == a[1] = "nan"
SignOf[a \in Floats] ==
    CASE a[1] = "pinf" -> 1
      [] a[1] = "ninf" -> -1
      [] a[1] = "fin" -> (IF a[2] > 0 THEN 1 ELSE IF a[2] < 0 THEN -1 ELSE 0)
      [] OTHER -> 0
FSign(a) == SignOf[a]
NegOf[a \in Floats] ==
    CASE a[1] = "fin" -> <<"fin", -a[2]>>
      [] a[1] = "pinf" -> NInf
      [] a[1] = "ninf" -> PInf
      [] OTHER -> NaN
FNeg(a) == NegOf[a]
AddOf[a \in Floats, b \in Floats] ==
    CASE IsNaN(a) \/ IsNaN(b) -> NaN
      [] IsFin(a) /\ IsFin(b) -> Fin(a[2] + b[2])
      [] IsFin(a) -> b
      [] IsFin(b) -> a
      [] OTHER -> IF a = b THEN a ELSE NaN
FAdd(a, b) == AddOf[a, b]
FSub(a, b) == FAdd(a, FNeg(b))
MulOf[a \in Floats, b \in Floats] ==
    CASE IsNaN(a) \/ IsNaN(b) -> NaN
      [] IsFin(a) /\ IsFin(b) -> Fin((a[2] * b[2]) \div Scale)
      [] OTHER -> (IF FSign(a) * FSign(b) = 0 THEN NaN
                   ELSE IF FSign(a) * FSign(b) > 0 THEN PInf ELSE NInf)
FMul(a, b) == MulOf[a, b]
DivOf[a \in Floats, b \in Floats] ==
    CASE IsNaN(a) \/ IsNaN(b) -> NaN
      [] IsFin(a) /\ IsFin(b) ->
           (IF b[2] = 0
            THEN (IF a[2] = 0 THEN NaN ELSE IF a[2] > 0 THEN PInf ELSE NInf)
            ELSE Fin((a[2] * Scale) \div b[2]))
      [] IsFin(a) -> <<"fin", 0>>
      [] IsFin(b) -> (IF FSign(a) * (IF b[2] < 0 THEN -1 ELSE 1) > 0 THEN PInf ELSE NInf)
      [] OTHER -> NaN
FDiv(a, b) == DivOf[a, b]
\* a >= b as the array library compares: false when either side is NaN
GeqOf[a \in Floats, b \in Floats] ==
    CASE IsNaN(a) \/ IsNaN(b) -> FALSE
      [] a[1] = "pinf" \/ b[1] = "ninf" -> TRUE
      [] a[1] = "ninf" \/ b[1] = "pinf" -> FALSE
      [] OTHER -> a[2] >= b[2]
FGeq(a, b) == GeqOf[a, b]
FGt(a, b) == FGeq(a, b) /\ a # b

RECURSIVE FSum(_)
FSum(s) == IF s = <<>> THEN <<"fin", 0>> ELSE FAdd(Head(s), FSum(Tail(s)))

(***************************************************************************)
(* One-hot encoding and arg-max.                                           *)
(***************************************************************************)
\* a one-hot encoder that counts classes from 1
OneHotFromOne(label) == [c \in 1 .. NUM_CLASSES |-> IF c = label THEN Real(1) ELSE Real(0)]

\* jax.nn.one_hot(label, num_classes=10): position c (0-based) of the result
\* is 1.0 where label = c; the sequence holds class c at index c + 1
one_hot(label) == [c \in 1 .. NUM_CLASSES |-> IF c - 1 = label THEN Real(1) ELSE Real(0)]

\* np.argmax: the first (0-based) position holding the maximum; a NaN entry
\* counts as the maximum
argmax(v) ==
    IF \E k \in DOMAIN v : IsNaN(v[k])
    THEN (CHOOSE k \in DOMAIN v : IsNaN(v[k]) /\ \A j \in 1 .. (k - 1) : ~IsNaN(v[j])) - 1
    ELSE (CHOOSE k \in DOMAIN v :
             /\ \A j \in DOMAIN v : FGeq(v[k], v[j])
             /\ \A j \in 1 .. (k - 1) : FGt(v[k], v[j])) - 1

(***************************************************************************)
(* One-hot encoding of the labels at data loading, decoded by arg-max.     *)
(***************************************************************************)
OneHotInit ==
    /\ pc = "onehot_encode"
    /\ arg \in Classes \X Classes
    /\ ret = None
    /\ notebook = "none" /\ key = 0 /\ steps = 0 /\ BATCH_SIZE = 0
    /\ LEARN_RATE = Real(0) /\ i = 0 /\ train_key = 0 /\ inds = <<>>
    /\ x = <<>> /\ y = <<>> /\ model = <<>> /\ nn = None /\ opt_state = None
    /\ grad = None /\ updates = None /\ loss_value = None /\ loss_log = <<>>
    /\ emitted = <<>> /\ inds_log = <<>> /\ prev_run = None
    /\ y_test = <<>> /\ test_outputs = <<>> /\ y_test_predictions = <<>>
    /\ confusion_matrix = None

\* y_train_1hot = jax.nn.one_hot(y_train, num_classes=10, axis=-1)
OneHotEncode ==
    /\ pc = "onehot_encode"
    /\ ret' = [encoded |-> [k \in DOMAIN arg |-> one_hot(arg[k])], decoded |-> <<>>]
    /\ pc' = "onehot_decode"
    /\ UNCHANGED <<arg, trainVars, evalVars>>

\* np.argmax(..., axis=1) of the encoded rows
OneHotDecode ==
    /\ pc = "onehot_decode"
    /\ ret' = [ret EXCEPT !.decoded = [k \in DOMAIN ret.encoded |-> argmax(ret.encoded[k])]]
    /\ pc' = "onehot_done"
    /\ UNCHANGED <<arg, trainVars, evalVars>>

OneHotNext == OneHotEncode \/ OneHotDecode

SpecOneHot == OneHotInit /\ [][OneHotNext]_vars

(***************************************************************************)
(* The evaluator: arg-max predictions and the confusion matrix.            *)
(***************************************************************************)
\* labels the test set of the model is drawn from
SampleLabels == {0, 4, 9}

\* network outputs the test set of the model is drawn from: a confident
\* output per sample label, a tie between all classes, a diverged network
SampleOutputs ==
    {one_hot(c) : c \in SampleLabels}
        \cup {[c \in 1 .. NUM_CLASSES |-> Fin(Scale \div NUM_CLASSES)],
              [c \in 1 .. NUM_CLASSES |-> NaN]}

\* an increment written at [predicted, true]
ConfusionUpdateTransposed(cm, true, predicted) ==
    [cm EXCEPT ![<<predicted, true>>] = cm[<<predicted, true>>] + 1]

\* a cell set to 1 instead of incremented
ConfusionUpdateSetOne(cm, true, predicted) ==
    [cm EXCEPT ![<<true, predicted>>] = 1]

\* confusion_matrix.at[t, p].set(confusion_matrix[t, p] + 1)
ConfusionUpdate(cm, true, predicted) ==
    [cm EXCEPT ![<<true, predicted>>] = cm[<<true, predicted>>] + 1]

EvalInit ==
    /\ pc = "eval_predict"
    /\ \E n \in 0 .. TestSize :
          /\ y_test \in [1 .. n -> SampleLabels]
          /\ test_outputs \in [1 .. n -> SampleOutputs]
    /\ y_test_predictions = <<>>
    /\ confusion_matrix = None
    /\ i = 0
    /\ arg = None /\ ret = None
    /\ notebook = "none" /\ key = 0 /\ steps = 0 /\ BATCH_SIZE = 0
    /\ LEARN_RATE = Real(0) /\ train_key = 0 /\ inds = <<>>
    /\ x = <<>> /\ y = <<>> /\ model = <<>> /\ nn = None /\ opt_state = None
    /\ grad = None /\ updates = None /\ loss_value = None /\ loss_log = <<>>
    /\ emitted = <<>> /\ inds_log = <<>> /\ prev_run = None

evalFrame == <<notebook, key, steps, BATCH_SIZE, LEARN_RATE, train_key, inds,
               x, y, model, nn, opt_state, grad, updates, loss_value, loss_log,
               emitted, inds_log, prev_run, arg, ret>>

\* y_test_predictions = np.argmax(jax.vmap(nn)(x_test_flat), axis=1)
\* confusion_matrix = np.zeros((10,10))
EvalPredict ==
    /\ pc = "eval_predict"
    /\ y_test_predictions' = [k \in DOMAIN test_outputs |-> argmax(test_outputs[k])]
    /\ confusion_matrix' = [c \in Classes \X Classes |-> 0]
    /\ i' = 0
    /\ pc' = "eval_loop"
    /\ UNCHANGED <<y_test, test_outputs, evalFrame>>

\* one pass of: for i in range(len(y_test)): confusion_matrix = ...
EvalStep ==
    /\ pc = "eval_loop"
    /\ i < Len(y_test)
    /\ confusion_matrix' =
          ConfusionUpdate(confusion_matrix, y_test[i + 1], y_test_predictions[i + 1])
    /\ i' = i + 1
    /\ UNCHANGED <<pc, y_test, test_outputs, y_test_predictions, evalFrame>>

\* range(len(y_test)) is exhausted
EvalDone ==
    /\ pc = "eval_loop"
    /\ i = Len(y_test)
    /\ pc' = "eval_done"
    /\ UNCHANGED <<i, evalVars, evalFrame>>

EvalNext == EvalPredict \/ EvalStep \/ EvalDone

SpecEval == EvalInit /\ [][EvalNext]_vars

(***************************************************************************)
(* Properties of the evaluator.                                            *)
(***************************************************************************)
\* number of the first n test samples with true label a and prediction b
CountPairs(n, a, b) ==
    Cardinality({k \in 1 .. n : y_test[k] = a /\ y_test_predictions[k] = b})

RowSum(cm, a) == SumSeq([c \in 1 .. NUM_CLASSES |-> cm[<<a, c - 1>>]])

TotalSum(cm) == SumSeq([a \in 1 .. NUM_CLASSES |-> RowSum(cm, a - 1)])

\* C1: the matrix starts all-zero, every processed sample adds 1 to the cell
\* [true label, predicted label] and to no other, so that after k samples
\* (and at the end, after all of them) every entry C[a][b] is the number of
\* processed samples with true label a and predicted label b.
C1_ConfusionCounts ==
    pc \in {"eval_loop", "eval_done"} =>
        /\ \A a, b \in Classes : confusion_matrix[<<a, b>>] = CountPairs(i, a, b)
        /\ pc = "eval_done" => i = Len(y_test)

C1_Witness ==
    /\ pc = "eval_done"
    /\ Len(y_test) = TestSize
    /\ confusion_matrix[<<4, 0>>] = 2
    /\ confusion_matrix[<<9, 9>>] = 1

\* C2: after k samples the entries sum to k; at the end every row a sums to
\* the number of test samples with true label a and the whole matrix sums to
\* the size of the test set.
C2_ConfusionSums ==
    pc \in {"eval_loop", "eval_done"} =>
        /\ TotalSum(confusion_matrix) = i
        /\ pc = "eval_done" =>
              /\ TotalSum(confusion_matrix) = Len(y_test)
              /\ \A a \in Classes :
                    RowSum(confusion_matrix, a)
                        = Cardinality({k \in DOMAIN y_test : y_test[k] = a})

C2_Witness ==
    /\ pc = "eval_done"
    /\ Len(y_test) = TestSize
    /\ RowSum(confusion_matrix, 9) = 2
    /\ RowSum(confusion_matrix, 0) = 1
    /\ confusion_matrix[<<9, 9>>] = 1

(***************************************************************************)
(* Properties of the one-hot encoding.                                     *)
(***************************************************************************)
\* C5: decoding the one-hot encoding of a label by arg-max gives the label
\* back, for every label 0..9; every encoding holds exactly one 1, and two
\* different labels have different encodings.
C5_OneHotRoundTrip ==
    pc = "onehot_done" =>
        /\ ret.decoded = arg
        /\ \A k \in DOMAIN ret.encoded :
              /\ Len(ret.encoded[k]) = NUM_CLASSES
              /\ Cardinality({c \in DOMAIN ret.encoded[k] : ret.encoded[k][c] = Real(1)}) = 1
              /\ Cardinality({c \in DOMAIN ret.encoded[k] : ret.encoded[k][c] = Real(0)})
                    = NUM_CLASSES - 1
        /\ arg[1] # arg[2] => ret.encoded[1] # ret.encoded[2]

C5_Witness ==
    /\ pc = "onehot_done"
    /\ arg = <<9, 0>>
    /\ ret.decoded = <<9, 0>>

(***************************************************************************)
(* Bounds of the training model.                                           *)
(***************************************************************************)
\* number of samples in the training pool (60000 images; 5421 grouped rows)
PoolSize == 4
\* largest step count a run is asked for
MaxSteps == 3
\* input_size of the perceptron (784)
InputSize == 2
\* hidden_size of the perceptron (100)
HiddenSize == 1
\* every dimension of the autoencoder's kernels and linear layers
NodeDim == 1
\* number of distinct PRNG keys
KeySpace == 1009
\* how often the training cell is executed again
MaxReruns == 1

(***************************************************************************)
(* Program constants of the training cells.                                *)
(***************************************************************************)
SEED_EQUINOX == 12345
SEED == 1234
LOG_EVERY == 10
NODE_TIMES == 9

(***************************************************************************)
(* Pseudo-random numbers: keys are numbers below KeySpace, and every draw  *)
(* is a function of its key.                                               *)
(***************************************************************************)
\* jr.PRNGKey(seed)
PRNGKey(seed) == seed % KeySpace

\* jr.fold_in(key, data)
fold_in(k, data) == (k * 31 + data * 7 + 1) % KeySpace

\* jr.split(key, n)
split(k, n) == [j \in 1 .. n |-> (k * 17 + j * 101 + 3) % KeySpace]

\* jr.permutation(key, items): the items sorted by the random bits the key
\* gives their positions, equal bits in the order of the positions
permutation(k, items) ==
    LET n == Len(items)
        bits(j) == (fold_in(k, j) * fold_in(k, j)) % KeySpace
        rank(j) == Cardinality({m \in 1 .. n :
                                   \/ bits(m) < bits(j)
                                   \/ bits(m) = bits(j) /\ m < j})
    IN  [p \in 1 .. n |-> items[CHOOSE j \in 1 .. n : rank(j) = p - 1]]

arange(n) == [j \in 1 .. n |-> j - 1]

\* a draw with replacement: every position is drawn on its own
ChoiceWithReplacement(k, n, size) == [j \in 1 .. size |-> fold_in(k, j) % n]

\* jr.choice(key, np.arange(n), (size,), replace=False), for size <= n: the
\* first size entries of a key-selected permutation of 0 .. n-1
choice(k, n, size) == SubSeq(permutation(k, arange(n)), 1, size)

(***************************************************************************)
(* Arrays and parameter collections.  An array is its shape and its        *)
(* entries in row-major order; a parameter collection is the sequence of   *)
(* its array leaves, each with its place in the collection.                *)
(***************************************************************************)
RECURSIVE Product(_)
Product(s) == IF s = <<>> THEN 1 ELSE Head(s) * Product(Tail(s))

Leaf(path, shape, data) == [path |-> path, shape |-> shape, data |-> data]

\* entries drawn by key: small values around zero
RandomArray(k, path, shape) ==
    Leaf(path, shape, [e \in 1 .. Product(shape) |-> Fin(((k + 3 * e) % 5) - 2)])

ZerosLike(tree) ==
    [l \in DOMAIN tree |->
        Leaf(tree[l].path, tree[l].shape, [e \in DOMAIN tree[l].data |-> Real(0)])]

\* the nested structure of a collection: the place and shape of every leaf
Structure(tree) == [l \in DOMAIN tree |-> <<tree[l].path, tree[l].shape>>]

RawOf(a) == IF IsFin(a) THEN a[2] ELSE 0

RECURSIVE RawSum(_)
RawSum(v) == IF v = <<>> THEN 0 ELSE RawOf(Head(v)) + RawSum(Tail(v))

RECURSIVE TreeRawSum(_)
TreeRawSum(tree) ==
    IF tree = <<>> THEN 0 ELSE RawSum(Head(tree).data) + TreeRawSum(Tail(tree))

RECURSIVE RowsRawSum(_)
RowsRawSum(rows) == IF rows = <<>> THEN 0 ELSE RawSum(Head(rows)) + RowsRawSum(Tail(rows))

AllFinite(tree) == \A l \in DOMAIN tree : \A e \in DOMAIN tree[l].data : IsFin(tree[l].data[e])

(***************************************************************************)
(* The training data.                                                      *)
(***************************************************************************)
\* x_train_flat[n]: the flattened image of training sample n
x_train_flat(n) == [p \in 1 .. InputSize |-> Fin(n * InputSize + p)]

\* y_train[n]
y_train(n) == n % NUM_CLASSES

\* y_train_1hot[n]
y_train_1hot(n) == one_hot(y_train(n))

\* X0[n]: the digit-0 image of grouped row n
X0(n) == <<Fin(n)>>

\* XT[n]: the images of digits 1..9 of grouped row n
XT(n) == [d \in 1 .. NODE_TIMES |-> Fin(n + PoolSize * d)]

(***************************************************************************)
(* The models.                                                             *)
(***************************************************************************)
\* SimpleNetwork(input_size, hidden_size, output_size, key) of the Equinox
\* notebook: the array leaves of layers = [Linear, relu, Linear, softmax]
EquinoxSimpleNetwork(input_size, hidden_size, output_size, k) ==
    LET keys == split(k, 2)
    IN  << RandomArray(keys[1], "layers[0].weight", <<hidden_size, input_size>>),
           RandomArray(fold_in(keys[1], 1), "layers[0].bias", <<hidden_size>>),
           RandomArray(keys[2], "layers[2].weight", <<output_size, hidden_size>>),
           RandomArray(fold_in(keys[2], 1), "layers[2].bias", <<output_size>>) >>

\* SimpleNetwork(input_size, hidden_size, output_size, key) of the
\* from-scratch notebook: the object's weights and bias lists
ScratchSimpleNetwork(input_size, hidden_size, output_size, k) ==
    LET keys == split(k, 4)
    IN  [weights |-> << RandomArray(keys[1], "weights[0]", <<hidden_size, input_size>>),
                        RandomArray(keys[2], "weights[1]", <<output_size, hidden_size>>) >>,
         bias    |-> << RandomArray(keys[3], "bias[0]", <<hidden_size>>),
                        RandomArray(keys[4], "bias[1]", <<output_size>>) >>]

\* nn_params = [nn.weights[0], nn.weights[1], nn.bias[0], nn.bias[1]]
ScratchParams(net) == <<net.weights[1], net.weights[2], net.bias[1], net.bias[2]>>

\* ODE_solver(key).update = Autoencoder(key): the array leaves of the three
\* convolutions, the three transposed convolutions and the two linear layers
Autoencoder(k) ==
    LET keys == split(k, 8)
        d == NodeDim
        conv(j, name) ==
            << RandomArray(keys[j], name \o ".weight", <<d, d, d, d>>),
               RandomArray(fold_in(keys[j], 1), name \o ".bias", <<d, 1, 1>>) >>
        linear(j, name) ==
            << RandomArray(keys[j], name \o ".weight", <<d, d>>),
               RandomArray(fold_in(keys[j], 1), name \o ".bias", <<d>>) >>
    IN  conv(1, "update.encode_layers[0]") \o conv(2, "update.encode_layers[3]")
            \o conv(3, "update.encode_layers[6]")
            \o conv(4, "update.decode_layers[0]") \o conv(5, "update.decode_layers[2]")
            \o conv(6, "update.decode_layers[4]")
            \o linear(7, "update.time_encode_layers[0]")
            \o linear(8, "update.time_encode_layers[2]")

(***************************************************************************)
(* Loss and gradient.  Automatic differentiation is a capability of the    *)
(* array library: the loss is some function of the parameters and of the   *)
(* batch, and the gradient has one entry per parameter entry.  A parameter *)
(* that is not finite makes the loss and every gradient entry NaN.         *)
(***************************************************************************)
LossOf(params, xb, yb) ==
    IF ~AllFinite(params) THEN NaN
    ELSE LET h == TreeRawSum(params) + RowsRawSum(xb) + RowsRawSum(yb)
         IN  Fin(((IF h < 0 THEN -h ELSE h) * 5) % (4 * Scale))

GradOf(params, xb, yb) ==
    [l \in DOMAIN params |->
        Leaf(params[l].path, params[l].shape,
             [e \in DOMAIN params[l].data |->
                 IF ~AllFinite(params) THEN NaN
                 ELSE Real(((TreeRawSum(params) + RowsRawSum(xb) + RowsRawSum(yb)
                             + 2 * l + e) % 5) - 2)])]

\* a loss differentiated with respect to the weights alone
LossWeightsOnly(params, xb, yb) ==
    [value |-> LossOf(params, xb, yb),
     grad  |-> SubSeq(GradOf(params, xb, yb), 1, 2)]

\* loss(model, x, y) under value_and_grad: the loss and its gradient with
\* respect to the first argument
loss(params, xb, yb) ==
    [value |-> LossOf(params, xb, yb),
     grad  |-> GradOf(params, xb, yb)]

(***************************************************************************)
(* The optimisers.                                                         *)
(***************************************************************************)
\* a gradient step that starts a parameter found NaN again from zero
OptimiserNanToNum(model_parameters, gradient, learn_rate) ==
    [l \in DOMAIN model_parameters |->
        IF l \in DOMAIN gradient
        THEN [model_parameters[l] EXCEPT !.data =
                [e \in DOMAIN @ |->
                    IF IsNaN(@[e]) THEN Fin(0)
                    ELSE FSub(@[e], FMul(learn_rate, gradient[l].data[e]))]]
        ELSE model_parameters[l]]

\* a gradient step that takes twice the gradient
OptimiserDoubleStep(model_parameters, gradient, learn_rate) ==
    [l \in DOMAIN model_parameters |->
        IF l \in DOMAIN gradient
        THEN [model_parameters[l] EXCEPT !.data =
                [e \in DOMAIN @ |->
                    FSub(@[e], FMul(learn_rate,
                                    FAdd(gradient[l].data[e], gradient[l].data[e])))]]
        ELSE model_parameters[l]]

\* a gradient step with weight decay
OptimiserWithDecay(model_parameters, gradient, learn_rate) ==
    [l \in DOMAIN model_parameters |->
        IF l \in DOMAIN gradient
        THEN [model_parameters[l] EXCEPT !.data =
                [e \in DOMAIN @ |->
                    FSub(@[e], FMul(learn_rate,
                                    FAdd(gradient[l].data[e], model_parameters[l].data[e])))]]
        ELSE model_parameters[l]]

\* optimiser(model_parameters, gradient, learn_rate):
\*   for i, dm in enumerate(gradient): model_parameters[i] -= learn_rate*dm
optimiser(model_parameters, gradient, learn_rate) ==
    [l \in DOMAIN model_parameters |->
        IF l \in DOMAIN gradient
        THEN [model_parameters[l] EXCEPT !.data =
                [e \in DOMAIN @ |-> FSub(@[e], FMul(learn_rate, gradient[l].data[e]))]]
        ELSE model_parameters[l]]

\* the square root of a float, rounded down to the resolution
SqrtOf[a \in Floats] ==
    CASE IsNaN(a) -> NaN
      [] a[1] = "pinf" -> PInf
      [] a[1] = "ninf" -> NaN
      [] OTHER -> (IF a[2] < 0 THEN NaN
                   ELSE Fin(CHOOSE r \in 0 .. ((a[2] + Scale) \div 2 + 1) :
                               /\ r * r <= a[2] * Scale
                               /\ (r + 1) * (r + 1) > a[2] * Scale))
FSqrt(a) == SqrtOf[a]

\* optim.init(eqx.filter(model, eqx.is_array)): a step count and two moment
\* collections shaped like the parameters
OptimInit(params) == [count |-> 0, mu |-> ZerosLike(params), nu |-> ZerosLike(params)]

\* the first and second moment of one entry after taking gradient entry g in
AdamMu(g, mu) == FAdd(mu, g)
AdamNu(g, nu) == FAdd(nu, FMul(g, g))

\* optim.update(grad, opt_state, model) of optax.adam: the moments take the
\* gradient in, the update is -rate * mu / (sqrt(nu) + eps).  The decay of
\* the moments and the bias correction are left out.
OptimUpdate(g, state, params, rate) ==
    [updates |->
        [l \in DOMAIN g |->
            [g[l] EXCEPT !.data =
                [e \in DOMAIN @ |->
                    FNeg(FMul(rate,
                              FDiv(AdamMu(@[e], state.mu[l].data[e]),
                                   FAdd(FSqrt(AdamNu(@[e], state.nu[l].data[e])),
                                        Fin(1)))))]]],
     opt_state |->
        [count |-> state.count + 1,
         mu |-> [l \in DOMAIN g |->
                    [g[l] EXCEPT !.data =
                        [e \in DOMAIN @ |-> AdamMu(@[e], state.mu[l].data[e])]]],
         nu |-> [l \in DOMAIN g |->
                    [g[l] EXCEPT !.data =
                        [e \in DOMAIN @ |-> AdamNu(@[e], state.nu[l].data[e])]]]]]

\* eqx.apply_updates(model, updates): leaf-wise model + updates
apply_updates(params, upd) ==
    [l \in DOMAIN params |->
        [params[l] EXCEPT !.data = [e \in DOMAIN @ |-> FAdd(@[e], upd[l].data[e])]]]

\* optax.exponential_decay(LEARN_RATE, transition_steps=steps, decay_rate=0.98):
\* the rate after count steps, 0.98^(count/steps) taken to first order; a
\* transition_steps of 0 or less gives the constant rate
exponential_decay(init_value, transition_steps, count) ==
    IF transition_steps <= 0 THEN init_value
    ELSE FMul(init_value, Fin(Scale - ((2 * count * Scale) \div (100 * transition_steps))))

\* the learning rate optax.adam is built with
Rate(count) ==
    IF notebook = "node" THEN exponential_decay(LEARN_RATE, steps, count) ELSE LEARN_RATE

(***************************************************************************)
(* The training cells.                                                     *)
(***************************************************************************)
trainFrame == <<evalVars, arg, ret>>

config == <<notebook, steps, BATCH_SIZE, LEARN_RATE>>

\* learning rates a run is asked for
SampleRates == {Fin(Scale \div 8), Real(1)}

TrainSpecInit ==
    /\ pc = "cell"
    /\ notebook \in {"equinox", "scratch", "node"}
    /\ steps \in 0 .. MaxSteps
    /\ BATCH_SIZE \in 1 .. (PoolSize + 1)
    /\ LEARN_RATE \in SampleRates
    /\ key = (IF notebook = "equinox" THEN 0 ELSE PRNGKey(SEED))
    /\ i = 0 /\ train_key = 0 /\ inds = <<>> /\ x = <<>> /\ y = <<>>
    /\ model = <<>> /\ nn = None /\ opt_state = None
    /\ grad = None /\ updates = None /\ loss_value = None /\ loss_log = <<>>
    /\ emitted = <<>> /\ inds_log = <<>> /\ prev_run = <<>>
    /\ y_test = <<>> /\ test_outputs = <<>> /\ y_test_predictions = <<>>
    /\ confusion_matrix = None
    /\ arg = None /\ ret = None

\* a cell that derives its key from the key of the previous execution
EquinoxCellKeyFolded(k) == fold_in(k, 1)

\* key = jr.PRNGKey(12345)
EquinoxCellKey(k) == PRNGKey(SEED_EQUINOX)

\* key = jr.PRNGKey(12345); nn = SimpleNetwork(784,100,10,key); train(nn,1000,key)
EquinoxRunCell ==
    /\ pc = "cell"
    /\ notebook = "equinox"
    /\ key' = EquinoxCellKey(key)
    /\ model' = EquinoxSimpleNetwork(InputSize, HiddenSize, NUM_CLASSES, key')
    /\ pc' = "train"
    /\ UNCHANGED <<config, i, train_key, inds, x, y, nn, opt_state, grad, updates,
                   loss_value, loss_log, emitted, inds_log, prev_run, trainFrame>>

\* node = ODE_solver(key); train(node, 20)
NodeRunCell ==
    /\ pc = "cell"
    /\ notebook = "node"
    /\ model' = Autoencoder(key)
    /\ pc' = "train"
    /\ UNCHANGED <<config, key, i, train_key, inds, x, y, nn, opt_state, grad, updates,
                   loss_value, loss_log, emitted, inds_log, prev_run, trainFrame>>

\* key = jr.fold_in(key,1); nn = SimpleNetwork(28*28,100,10,key);
\* nn_params = [...]; loss_log = []
ScratchRunCell ==
    /\ pc = "cell"
    /\ notebook = "scratch"
    /\ key' = fold_in(key, 1)
    /\ nn' = ScratchSimpleNetwork(InputSize, HiddenSize, NUM_CLASSES, key')
    /\ model' = ScratchParams(nn')
    /\ loss_log' = <<>>
    /\ inds_log' = <<>>
    /\ i' = 0
    /\ pc' = "loop"
    /\ UNCHANGED <<config, train_key, inds, x, y, opt_state, grad, updates,
                   loss_value, emitted, prev_run, trainFrame>>

\* the head of train: optim, opt_state, loss_log (and, in the neural ODE
\* notebook, train_key = jr.fold_in(key,1))
TrainHead ==
    /\ pc = "train"
    /\ opt_state' = OptimInit(model)
    /\ loss_log' = <<>>
    /\ inds_log' = <<>>
    /\ train_key' = (IF notebook = "node" THEN fold_in(key, 1) ELSE train_key)
    /\ i' = 0
    /\ pc' = "loop"
    /\ UNCHANGED <<config, key, inds, x, y, model, nn, grad, updates,
                   loss_value, emitted, prev_run, trainFrame>>

\* a loop that makes the optimiser state anew at every step
LoopNextReinit ==
    /\ pc = "loop"
    /\ i < steps
    /\ opt_state' = (IF notebook = "scratch" THEN opt_state ELSE OptimInit(model))
    /\ pc' = "fold"
    /\ UNCHANGED <<config, key, i, train_key, inds, x, y, model, nn, grad,
                   updates, loss_value, loss_log, emitted, inds_log, prev_run, trainFrame>>

\* for i in range(steps): the range yields i
LoopNext ==
    /\ pc = "loop"
    /\ i < steps
    /\ pc' = "fold"
    /\ UNCHANGED <<config, key, i, train_key, inds, x, y, model, nn, opt_state, grad,
                   updates, loss_value, loss_log, emitted, inds_log, prev_run, trainFrame>>

\* a loop that also stops once the loss is small
LoopExitEarly ==
    /\ pc = "loop"
    /\ \/ i = steps
       \/ i > 0 /\ i < steps /\ FGeq(Real(2), loss_value)
    /\ pc' = "done"
    /\ nn' = (IF notebook = "scratch"
              THEN [weights |-> <<model[1], model[2]>>, bias |-> <<model[3], model[4]>>]
              ELSE nn)
    /\ UNCHANGED <<config, key, i, train_key, inds, x, y, model, opt_state, grad,
                   updates, loss_value, loss_log, emitted, inds_log, prev_run, trainFrame>>

\* the range is exhausted: train returns (the from-scratch cell writes the
\* learned parameters back into nn)
LoopExit ==
    /\ pc = "loop"
    /\ i = steps
    /\ pc' = "done"
    /\ nn' = (IF notebook = "scratch"
              THEN [weights |-> <<model[1], model[2]>>, bias |-> <<model[3], model[4]>>]
              ELSE nn)
    /\ UNCHANGED <<config, key, i, train_key, inds, x, y, model, opt_state, grad,
                   updates, loss_value, loss_log, emitted, inds_log, prev_run, trainFrame>>

\* train_key = jr.fold_in(key,i); in the neural ODE notebook
\* train_key = jr.fold_in(train_key,i)
FoldKey ==
    /\ pc = "fold"
    /\ train_key' = (IF notebook = "node" THEN fold_in(train_key, i) ELSE fold_in(key, i))
    /\ pc' = "choice"
    /\ UNCHANGED <<config, key, i, inds, x, y, model, nn, opt_state, grad,
                   updates, loss_value, loss_log, emitted, inds_log, prev_run, trainFrame>>

\* inds = jr.choice(train_key, np.arange(pool), (BATCH_SIZE,), replace=False)
Choice ==
    /\ pc = "choice"
    /\ BATCH_SIZE <= PoolSize
    /\ inds' = choice(train_key, PoolSize, BATCH_SIZE)
    /\ inds_log' = Append(inds_log, inds')
    /\ pc' = "slice"
    /\ UNCHANGED <<config, key, i, train_key, x, y, model, nn, opt_state, grad,
                   updates, loss_value, loss_log, emitted, prev_run, trainFrame>>

\* a draw that takes the whole pool when asked for more, and goes on
ChoiceClamps ==
    /\ pc = "choice"
    /\ BATCH_SIZE > PoolSize
    /\ inds' = choice(train_key, PoolSize, PoolSize)
    /\ inds_log' = Append(inds_log, inds')
    /\ pc' = "slice"
    /\ UNCHANGED <<config, key, i, train_key, x, y, model, nn, opt_state, grad,
                   updates, loss_value, loss_log, emitted, prev_run, trainFrame>>

\* jr.choice raises: a sample larger than the population, without replacement
ChoiceRaises ==
    /\ pc = "choice"
    /\ BATCH_SIZE > PoolSize
    /\ pc' = "failed"
    /\ UNCHANGED <<config, key, i, train_key, inds, x, y, model, nn, opt_state, grad,
                   updates, loss_value, loss_log, emitted, inds_log, prev_run, trainFrame>>

\* a slice that takes the targets in the reverse order of the indices
SliceTargetsReversed ==
    /\ pc = "slice"
    /\ x' = [j \in DOMAIN inds |->
                IF notebook = "node" THEN X0(inds[j]) ELSE x_train_flat(inds[j])]
    /\ y' = [j \in DOMAIN inds |->
                IF notebook = "node" THEN XT(inds[Len(inds) + 1 - j])
                ELSE y_train_1hot(inds[Len(inds) + 1 - j])]
    /\ pc' = "loss"
    /\ UNCHANGED <<config, key, i, train_key, inds, model, nn, opt_state, grad,
                   updates, loss_value, loss_log, emitted, inds_log, prev_run, trainFrame>>

\* x = x_train_flat[inds]; y = y_train_1hot[inds]  (x0 = X0[inds]; xt = XT[inds])
Slice ==
    /\ pc = "slice"
    /\ x' = [j \in DOMAIN inds |->
                IF notebook = "node" THEN X0(inds[j]) ELSE x_train_flat(inds[j])]
    /\ y' = [j \in DOMAIN inds |->
                IF notebook = "node" THEN XT(inds[j]) ELSE y_train_1hot(inds[j])]
    /\ pc' = "loss"
    /\ UNCHANGED <<config, key, i, train_key, inds, model, nn, opt_state, grad,
                   updates, loss_value, loss_log, emitted, inds_log, prev_run, trainFrame>>

\* loss_value, grad = loss(model, x, y); the from-scratch loss also assigns
\* model.weights and model.bias from its parameter argument
Loss ==
    /\ pc = "loss"
    /\ loss_value' = loss(model, x, y).value
    /\ grad' = loss(model, x, y).grad
    /\ nn' = (IF notebook = "scratch"
              THEN [weights |-> <<model[1], model[2]>>, bias |-> <<model[3], model[4]>>]
              ELSE nn)
    /\ pc' = (IF notebook = "scratch" THEN "optimiser" ELSE "update")
    /\ UNCHANGED <<config, key, i, train_key, inds, x, y, model, opt_state,
                   updates, loss_log, emitted, inds_log, prev_run, trainFrame>>

\* an optimiser call that also writes the parameters
MakeStepUpdateInPlace ==
    /\ pc = "update"
    /\ updates' = OptimUpdate(grad, opt_state, model, Rate(opt_state.count)).updates
    /\ opt_state' = OptimUpdate(grad, opt_state, model, Rate(opt_state.count)).opt_state
    /\ model' = apply_updates(model, updates')
    /\ pc' = "apply"
    /\ UNCHANGED <<config, key, i, train_key, inds, x, y, nn, grad,
                   loss_value, loss_log, emitted, inds_log, prev_run, trainFrame>>

\* a step that computes the update and goes on without applying it
MakeStepUpdateUnapplied ==
    /\ pc = "update"
    /\ updates' = OptimUpdate(grad, opt_state, model, Rate(opt_state.count)).updates
    /\ opt_state' = OptimUpdate(grad, opt_state, model, Rate(opt_state.count)).opt_state
    /\ pc' = "append"
    /\ UNCHANGED <<config, key, i, train_key, inds, x, y, model, nn, grad,
                   loss_value, loss_log, emitted, inds_log, prev_run, trainFrame>>

\* make_step: updates, opt_state = optim.update(grad, opt_state, model)
MakeStepUpdate ==
    /\ pc = "update"
    /\ updates' = OptimUpdate(grad, opt_state, model, Rate(opt_state.count)).updates
    /\ opt_state' = OptimUpdate(grad, opt_state, model, Rate(opt_state.count)).opt_state
    /\ pc' = "apply"
    /\ UNCHANGED <<config, key, i, train_key, inds, x, y, model, nn, grad,
                   loss_value, loss_log, emitted, inds_log, prev_run, trainFrame>>

\* make_step: model = eqx.apply_updates(model, updates)
MakeStepApply ==
    /\ pc = "apply"
    /\ model' = apply_updates(model, updates)
    /\ pc' = "append"
    /\ UNCHANGED <<config, key, i, train_key, inds, x, y, nn, opt_state, grad, updates,
                   loss_value, loss_log, emitted, inds_log, prev_run, trainFrame>>

\* nn_params = optimiser(nn_params, grad, learn_rate=1e-1)
Optimiser ==
    /\ pc = "optimiser"
    /\ model' = optimiser(model, grad, LEARN_RATE)
    /\ pc' = "append"
    /\ UNCHANGED <<config, key, i, train_key, inds, x, y, nn, opt_state, grad, updates,
                   loss_value, loss_log, emitted, inds_log, prev_run, trainFrame>>

\* an append that evaluates the loss again, on the parameters as they are
\* after the update
AppendLossAfterUpdate ==
    /\ pc = "append"
    /\ loss_log' = Append(loss_log, loss(model, x, y).value)
    /\ pc' = "emit"
    /\ UNCHANGED <<config, key, i, train_key, inds, x, y, model, nn, opt_state, grad,
                   updates, loss_value, emitted, inds_log, prev_run, trainFrame>>

\* loss_log.append(train_loss)
AppendLoss ==
    /\ pc = "append"
    /\ loss_log' = Append(loss_log, loss_value)
    /\ pc' = "emit"
    /\ UNCHANGED <<config, key, i, train_key, inds, x, y, model, nn, opt_state, grad,
                   updates, loss_value, emitted, inds_log, prev_run, trainFrame>>

\* a report made at the end of every tenth step
EmitAfterTen ==
    /\ pc = "emit"
    /\ emitted' = (IF (i + 1) % LOG_EVERY = 0 THEN Append(emitted, <<i, loss_value>>)
                   ELSE emitted)
    /\ i' = i + 1
    /\ pc' = "loop"
    /\ UNCHANGED <<config, key, train_key, inds, x, y, model, nn, opt_state, grad,
                   updates, loss_value, loss_log, inds_log, prev_run, trainFrame>>

\* if i%10==0: tqdm.write("Loss at step "+str(i)+": "+str(train_loss));
\* the step is over and the loop goes on with the next value of the range
Emit ==
    /\ pc = "emit"
    /\ emitted' = (IF i % LOG_EVERY = 0 THEN Append(emitted, <<i, loss_value>>) ELSE emitted)
    /\ i' = i + 1
    /\ pc' = "loop"
    /\ UNCHANGED <<config, key, train_key, inds, x, y, model, nn, opt_state, grad,
                   updates, loss_value, loss_log, inds_log, prev_run, trainFrame>>

\* the training cell is executed again: the notebook's globals (key, nn)
\* are as the previous execution left them
Rerun ==
    /\ pc = "done"
    /\ Len(prev_run) < MaxReruns
    /\ prev_run' = Append(prev_run, [loss_log |-> loss_log, inds_log |-> inds_log,
                                     emitted |-> emitted])
    /\ pc' = "cell"
    /\ i' = 0 /\ train_key' = 0 /\ inds' = <<>> /\ x' = <<>> /\ y' = <<>>
    /\ opt_state' = None /\ grad' = None /\ updates' = None /\ loss_value' = None
    /\ emitted' = <<>>
    /\ UNCHANGED <<config, key, model, nn, loss_log, inds_log, trainFrame>>

TrainNext ==
    \/ EquinoxRunCell \/ NodeRunCell \/ ScratchRunCell \/ TrainHead
    \/ LoopNext \/ LoopExit \/ FoldKey \/ Choice \/ ChoiceRaises \/ Slice \/ Loss
    \/ MakeStepUpdate \/ MakeStepApply \/ Optimiser \/ AppendLoss \/ Emit \/ Rerun

Spec == TrainSpecInit /\ [][TrainNext]_vars

\* the training cells under the fairness of a running notebook: a cell that
\* can take a step takes it
SpecFair == Spec /\ WF_vars(TrainNext)

(***************************************************************************)
(* Properties of the training cells.                                       *)
(***************************************************************************)
\* positions inside one pass of the training loop, after the draw
AfterDraw == {"slice", "loss", "update", "apply", "optimiser", "append", "emit"}

\* positions of the training loop
InLoop == {"loop", "fold", "choice"} \cup AfterDraw

NoRepeats(s) == Cardinality(Range(s)) = Len(s)

\* C3: when the batch size asked for does not exceed the pool size, the
\* index vector drawn at every step of every notebook holds exactly
\* BATCH_SIZE indices and none of them twice.
C3_BatchWithoutRepeats ==
    BATCH_SIZE <= PoolSize =>
        /\ pc \in AfterDraw => Len(inds) = BATCH_SIZE /\ NoRepeats(inds)
        /\ pc \in InLoop \cup {"done"} =>
              \A k \in DOMAIN inds_log :
                  Len(inds_log[k]) = BATCH_SIZE /\ NoRepeats(inds_log[k])

C3_Witness ==
    /\ notebook = "node"
    /\ pc = "slice"
    /\ BATCH_SIZE = PoolSize - 1
    /\ Len(inds_log) = MaxSteps
    /\ inds_log[1] # inds_log[2]

\* C4: a second execution of the Equinox training cell, from the same seed,
\* data, step count, batch size and learning rate, draws at every step the
\* index vector the first execution drew and logs the loss the first
\* execution logged; the index vector of step k is the draw made with
\* fold_in(key, k).
C4_SameSeedSameRun ==
    notebook = "equinox" /\ pc \in InLoop \cup {"done"} =>
        /\ \A k \in DOMAIN inds_log :
              inds_log[k] = SubSeq(permutation(fold_in(key, k - 1), arange(PoolSize)),
                                   1, BATCH_SIZE)
        /\ prev_run # <<>> =>
              /\ \A k \in DOMAIN loss_log :
                    /\ k \in DOMAIN prev_run[1].loss_log
                    /\ loss_log[k] = prev_run[1].loss_log[k]
              /\ \A k \in DOMAIN inds_log :
                    /\ k \in DOMAIN prev_run[1].inds_log
                    /\ inds_log[k] = prev_run[1].inds_log[k]
              /\ pc = "done" =>
                    /\ loss_log = prev_run[1].loss_log
                    /\ inds_log = prev_run[1].inds_log
                    /\ emitted = prev_run[1].emitted

C4_Witness ==
    /\ notebook = "equinox"
    /\ pc = "done"
    /\ prev_run # <<>>
    /\ Len(loss_log) = MaxSteps
    /\ loss_log[1] # loss_log[2]
    /\ inds_log[1] # inds_log[2]

\* C7: at every step the gradient the loss returns has the nested structure
\* of the parameter collection it was taken against and, leaf by leaf, its
\* shape and number of entries (in the from-scratch notebook a list of four:
\* weights0, weights1, bias0, bias1), so every parameter meets exactly one
\* gradient entry.
C7_GradientMirrorsParameters ==
    pc \in {"update", "apply", "optimiser", "append", "emit"} =>
        /\ Structure(grad) = Structure(model)
        /\ DOMAIN grad = DOMAIN model
        /\ \A l \in DOMAIN model :
              /\ DOMAIN grad[l].data = DOMAIN model[l].data
              /\ Len(grad[l].data) = Product(model[l].shape)
        /\ notebook = "scratch" =>
              [l \in DOMAIN grad |-> grad[l].path]
                  = <<"weights[0]", "weights[1]", "bias[0]", "bias[1]">>

C7_Witness ==
    /\ notebook = "scratch"
    /\ pc = "optimiser"
    /\ i = 1
    /\ Len(grad) = 4
    /\ grad[2].shape = <<NUM_CLASSES, HiddenSize>>
    /\ \E e \in DOMAIN grad[2].data : grad[2].data[e] # Real(0)

\* C9: a run asked for n steps (n >= 0) that raises no error takes exactly
\* n steps and then ends, whatever the losses are; when it has ended the
\* loss log holds exactly n entries.
C9_RunsExactlySteps ==
    /\ [](pc = "done" => Len(loss_log) = steps /\ Len(inds_log) = steps /\ i = steps)
    /\ [](pc \in {"fold", "choice"} \cup AfterDraw => i < steps)
    /\ [](pc = "cell" /\ BATCH_SIZE <= PoolSize => <>(pc = "done"))

C9_Witness ==
    /\ pc = "done"
    /\ steps = MaxSteps
    /\ Len(loss_log) = MaxSteps
    /\ \E k \in DOMAIN loss_log : FGeq(Real(1), loss_log[k])

\* C10 as claimed: in both optimiser variants the optimiser call leaves the
\* parameters unchanged, and the parameters change only in the apply step
\* that follows it.
OptimiserCallIsPure ==
    /\ pc \in {"update", "optimiser"} => model' = model
    /\ pc \in InLoop /\ model' # model => pc = "apply"

C10_OptimiserNeverWritesParameters == [][OptimiserCallIsPure]_vars

\* C10, amended: in the library variant (optax, in the Equinox and neural
\* ODE notebooks) the optimiser call takes the gradient, the optimiser state
\* and the parameters, returns an update shaped like the parameters and the
\* next optimiser state, and leaves the parameters unchanged; inside the
\* training loop the parameters change only in the apply step that follows,
\* which adds the update to them.
LibraryUpdateThenApply ==
    notebook \in {"equinox", "node"} =>
        /\ pc = "update" =>
              /\ model' = model
              /\ pc' = "apply"
              /\ Structure(updates') = Structure(model)
              /\ opt_state'.count = opt_state.count + 1
        /\ pc \in InLoop /\ model' # model =>
              /\ pc = "apply"
              /\ model' = apply_updates(model, updates)

C10_LibraryUpdateThenApply == [][LibraryUpdateThenApply]_vars

C10_Witness ==
    /\ notebook = "equinox"
    /\ pc = "append"
    /\ i = 1
    /\ opt_state.count = 2
    /\ model # EquinoxSimpleNetwork(InputSize, HiddenSize, NUM_CLASSES, key)
    /\ \E l \in DOMAIN updates : \E e \in DOMAIN updates[l].data :
          updates[l].data[e] # Real(0)


(***************************************************************************)
(* The manual optimiser called on its own: once, and once more on what it  *)
(* returned.  The call rewrites the entries of the caller's list and       *)
(* returns that list.                                                      *)
(***************************************************************************)
\* entries a parameter can hold, a diverged run's infinities and NaN included
SampleEntries == {Fin(0), Fin(-3), Fin(FMaxRaw), PInf, NaN}

SampleGradientEntries == {Fin(0), Fin(5), Fin(-FMaxRaw)}

\* learning rates: zero, small, negative, and the largest float
SampleLearnRates == {Fin(0), Fin(Scale \div 8), Fin(-Scale), Fin(FMaxRaw)}

OptimiserInit ==
    /\ pc = "optimiser_call"
    /\ arg \in [model_parameters :
                    {<<Leaf("weights[0]", <<1, 1>>, <<a>>), Leaf("bias[0]", <<1>>, <<b>>)>> :
                        a \in SampleEntries, b \in SampleEntries},
                gradient :
                    {<<Leaf("weights[0]", <<1, 1>>, <<a>>), Leaf("bias[0]", <<1>>, <<b>>)>> :
                        a \in SampleGradientEntries, b \in SampleGradientEntries},
                learn_rate : SampleLearnRates]
    /\ ret = [before |-> arg.model_parameters, once |-> <<>>, twice |-> <<>>]
    /\ notebook = "none" /\ key = 0 /\ steps = 0 /\ BATCH_SIZE = 0
    /\ LEARN_RATE = Real(0) /\ i = 0 /\ train_key = 0 /\ inds = <<>>
    /\ x = <<>> /\ y = <<>> /\ model = <<>> /\ nn = None /\ opt_state = None
    /\ grad = None /\ updates = None /\ loss_value = None /\ loss_log = <<>>
    /\ emitted = <<>> /\ inds_log = <<>> /\ prev_run = None
    /\ y_test = <<>> /\ test_outputs = <<>> /\ y_test_predictions = <<>>
    /\ confusion_matrix = None

\* optimiser(model_parameters, gradient, learn_rate)
OptimiserCall ==
    /\ pc = "optimiser_call"
    /\ arg' = [arg EXCEPT !.model_parameters =
                  optimiser(arg.model_parameters, arg.gradient, arg.learn_rate)]
    /\ ret' = [ret EXCEPT !.once = arg'.model_parameters]
    /\ pc' = "optimiser_again"
    /\ UNCHANGED <<trainVars, evalVars>>

\* the same call on the list the first call returned
OptimiserCallAgain ==
    /\ pc = "optimiser_again"
    /\ arg' = [arg EXCEPT !.model_parameters =
                  optimiser(arg.model_parameters, arg.gradient, arg.learn_rate)]
    /\ ret' = [ret EXCEPT !.twice = arg'.model_parameters]
    /\ pc' = "optimiser_done"
    /\ UNCHANGED <<trainVars, evalVars>>

OptimiserNext == OptimiserCall \/ OptimiserCallAgain

SpecOptimiser == OptimiserInit /\ [][OptimiserNext]_vars

ZeroGradient(g) == \A l \in DOMAIN g : \A e \in DOMAIN g[l].data : g[l].data[e] = Fin(0)

\* C6: the manual optimiser called with a gradient that is zero in every
\* entry returns the parameters it was given, whatever the (finite)
\* learning rate; calling it again on the result returns them once more.
C6_ZeroGradientKeepsParameters ==
    /\ pc \in {"optimiser_again", "optimiser_done"} /\ ZeroGradient(arg.gradient)
          => ret.once = ret.before /\ arg.model_parameters = ret.before
    /\ pc = "optimiser_done" /\ ZeroGradient(arg.gradient)
          => ret.twice = ret.once

\* both calls made with a zero gradient, a non-zero rate and a non-zero
\* parameter
C6_Witness ==
    /\ pc = "optimiser_done"
    /\ ZeroGradient(arg.gradient)
    /\ arg.learn_rate = Fin(FMaxRaw)
    /\ ret.before[1].data[1] = Fin(-3)
    /\ ret.before[2].data[1] = Fin(FMaxRaw)
    /\ ret.twice = ret.before

(***************************************************************************)
(* The forward pass of the from-scratch classifier:                        *)
(* linear -> ReLU -> linear -> softmax.                                    *)
(***************************************************************************)
\* e^(v/Scale) in units of 1/Scale, for v >= 0: e per whole unit, the cubic
\* Taylor polynomial for the rest; saturates just past the largest float
RECURSIVE ExpRaw(_)
ExpRaw(v) ==
    IF v >= Scale
    THEN (IF ExpRaw(v - Scale) > FMaxRaw THEN FMaxRaw + 1
          ELSE (ExpRaw(v - Scale) * 2718) \div 1000)
    ELSE Scale + v + (v * v) \div (2 * Scale) + (v * v * v) \div (6 * Scale * Scale)

\* np.exp: overflows to infinity, underflows to zero
ExpOf[a \in Floats] ==
    CASE IsNaN(a) -> NaN
      [] a[1] = "pinf" -> PInf
      [] a[1] = "ninf" -> Fin(0)
      [] OTHER -> (IF a[2] >= 0 THEN Fin(ExpRaw(a[2]))
                   ELSE Fin((Scale * Scale) \div ExpRaw(-a[2])))
FExp(a) == ExpOf[a]

\* linear_layer(x, weights, bias) == np.matmul(weights, x) + bias
linear_layer(xs, weights, bias) ==
    [r \in 1 .. weights.shape[1] |->
        FAdd(FSum([c \in 1 .. weights.shape[2] |->
                      FMul(weights.data[(r - 1) * weights.shape[2] + c], xs[c])]),
             bias.data[r])]

\* relu_activation(x) == np.maximum(x, 0), which hands a NaN on
relu_activation(xs) ==
    [k \in DOMAIN xs |->
        IF IsNaN(xs[k]) THEN NaN ELSE IF FGeq(xs[k], Fin(0)) THEN xs[k] ELSE Fin(0)]

\* softmax_activation(x): Z = np.sum(np.exp(x)); return np.exp(x)/Z
softmax_activation(xs) ==
    [k \in DOMAIN xs |-> FDiv(FExp(xs[k]), FSum([j \in DOMAIN xs |-> FExp(xs[j])]))]

\* a network whose first layer holds a everywhere and whose second layer
\* holds b in the row of class c and d in the other rows; biases zero
NetworkOf(a, b, c, d) ==
    [weights |-> << Leaf("weights[0]", <<HiddenSize, InputSize>>,
                         [e \in 1 .. HiddenSize * InputSize |-> a]),
                    Leaf("weights[1]", <<NUM_CLASSES, HiddenSize>>,
                         [e \in 1 .. NUM_CLASSES * HiddenSize |->
                             IF (e - 1) \div HiddenSize = c THEN b ELSE d]) >>,
     bias    |-> << Leaf("bias[0]", <<HiddenSize>>, [e \in 1 .. HiddenSize |-> Fin(0)]),
                    Leaf("bias[1]", <<NUM_CLASSES>>, [e \in 1 .. NUM_CLASSES |-> Fin(0)]) >>]

\* parameter values: the freshly initialised network, and networks as
\* training can leave them, with small and with large entries
SampleNetworks ==
    {ScratchSimpleNetwork(InputSize, HiddenSize, NUM_CLASSES, fold_in(PRNGKey(SEED), 1))}
    \cup {NetworkOf(a, b, c, d) :
             a \in {Fin(-Scale), Fin(1), Fin(Scale), Fin(8 * Scale)},
             b \in {Fin(-8 * Scale), Fin(0), Fin(8 * Scale)},
             c \in {0, NUM_CLASSES - 1},
             d \in {Fin(-8 * Scale), Fin(0)}}

\* flattened images with pixel values in [0, 1]
SampleImages == [1 .. InputSize -> {Fin(0), Fin(Scale \div 2), Fin(Scale)}]

ForwardInit ==
    /\ pc = "h1"
    /\ arg \in [nn : SampleNetworks, x : SampleImages]
    /\ ret = [h1 |-> <<>>, h2 |-> <<>>, h3 |-> <<>>, h4 |-> <<>>]
    /\ notebook = "none" /\ key = 0 /\ steps = 0 /\ BATCH_SIZE = 0
    /\ LEARN_RATE = Real(0) /\ i = 0 /\ train_key = 0 /\ inds = <<>>
    /\ x = <<>> /\ y = <<>> /\ model = <<>> /\ nn = None /\ opt_state = None
    /\ grad = None /\ updates = None /\ loss_value = None /\ loss_log = <<>>
    /\ emitted = <<>> /\ inds_log = <<>> /\ prev_run = None
    /\ y_test = <<>> /\ test_outputs = <<>> /\ y_test_predictions = <<>>
    /\ confusion_matrix = None

\* h1 = linear_layer(x, self.weights[0], self.bias[0])
ForwardHidden ==
    /\ pc = "h1"
    /\ ret' = [ret EXCEPT !.h1 = linear_layer(arg.x, arg.nn.weights[1], arg.nn.bias[1])]
    /\ pc' = "h2"
    /\ UNCHANGED <<arg, trainVars, evalVars>>

\* h2 = relu_activation(h1)
ForwardRelu ==
    /\ pc = "h2"
    /\ ret' = [ret EXCEPT !.h2 = relu_activation(ret.h1)]
    /\ pc' = "h3"
    /\ UNCHANGED <<arg, trainVars, evalVars>>

\* h3 = linear_layer(h2, self.weights[1], self.bias[1])
ForwardOutput ==
    /\ pc = "h3"
    /\ ret' = [ret EXCEPT !.h3 = linear_layer(ret.h2, arg.nn.weights[2], arg.nn.bias[2])]
    /\ pc' = "h4"
    /\ UNCHANGED <<arg, trainVars, evalVars>>

\* h4 = softmax_activation(h3); return h4
ForwardSoftmax ==
    /\ pc = "h4"
    /\ ret' = [ret EXCEPT !.h4 = softmax_activation(ret.h3)]
    /\ pc' = "forward_done"
    /\ UNCHANGED <<arg, trainVars, evalVars>>

ForwardNext == ForwardHidden \/ ForwardRelu \/ ForwardOutput \/ ForwardSoftmax

SpecForward == ForwardInit /\ [][ForwardNext]_vars

\* the entries are non-negative and add up to 1, give or take the rounding
\* of one division per entry
IsDistribution(p) ==
    /\ \A k \in DOMAIN p : FGeq(p[k], Fin(0))
    /\ FGeq(FSum(p), Fin(Scale - NUM_CLASSES))
    /\ FGeq(Fin(Scale + NUM_CLASSES), FSum(p))

\* C8: for every input and every parameter value the classifier returns
\* NUM_CLASSES entries, none negative, adding up to 1 within tolerance.
C8_OutputIsDistribution ==
    pc = "forward_done" => Len(ret.h4) = NUM_CLASSES /\ IsDistribution(ret.h4)

(***************************************************************************)
(* Who writes the parameters.                                              *)
(***************************************************************************)
\* C11 as claimed: in every notebook the loss evaluation (and the forward
\* pass inside it) leaves the parameters and the model object's weights and
\* biases as they were, and inside the training loop they are written only
\* by the optimiser's update step.
LossLeavesModelAlone ==
    /\ pc = "loss" => model' = model /\ nn' = nn
    /\ pc \in InLoop /\ (model' # model \/ nn' # nn) => pc \in {"apply", "optimiser"}

C11_ParametersWrittenOnlyByUpdate == [][LossLeavesModelAlone]_vars

(***************************************************************************)
(* The vector field of the neural ODE, Autoencoder.__call__(t, y, args),   *)
(* followed through its layers by the shape of the array each one returns. *)
(* A layer that cannot take the shape it is given raises.                  *)
(***************************************************************************)
\* side of an MNIST image
IMAGE_SIZE == 28

\* stands for the shape of no array: what a layer that raises returns
ShapeError == <<-1>>

Layer(op, cin, cout, k, stride) ==
    [op |-> op, cin |-> cin, cout |-> cout, k |-> k, stride |-> stride]

\* self.encode_layers
encode_layers ==
    << Layer("Conv2d", 1, 8, 6, 1), Layer("MaxPool2d", 0, 0, 4, 1), Layer("gelu", 0, 0, 0, 0),
       Layer("Conv2d", 8, 4, 5, 1), Layer("MaxPool2d", 0, 0, 4, 1), Layer("gelu", 0, 0, 0, 0),
       Layer("Conv2d", 4, 4, 4, 1), Layer("MaxPool2d", 0, 0, 4, 1), Layer("gelu", 0, 0, 0, 0) >>

\* self.decode_layers
decode_layers ==
    << Layer("ConvTranspose2d", 4, 4, 4, 1), Layer("gelu", 0, 0, 0, 0),
       Layer("ConvTranspose2d", 4, 8, 5, 2), Layer("gelu", 0, 0, 0, 0),
       Layer("ConvTranspose2d", 8, 1, 6, 1) >>

\* self.time_encode_layers; the last one is
\* einops.rearrange(x, "(k kw kh)-> k kw kh", kw=7, kh=7)
time_encode_layers ==
    << Layer("Linear", 1, 100, 0, 0), Layer("gelu", 0, 0, 0, 0),
       Layer("Linear", 100, 196, 0, 0), Layer("tanh", 0, 0, 0, 0),
       Layer("rearrange", 0, 0, 7, 0) >>

\* eqx.nn.MaxPool2d with the stride of the window size
MaxPool2dStrided(shape, L) ==
    IF Len(shape) # 3 \/ shape[2] < L.k \/ shape[3] < L.k THEN ShapeError
    ELSE <<shape[1], (shape[2] - L.k) \div L.k + 1, (shape[3] - L.k) \div L.k + 1>>

\* eqx.nn.MaxPool2d(kernel_size): stride 1, no padding
MaxPool2d(shape, L) ==
    IF Len(shape) # 3 \/ shape[2] < L.k \/ shape[3] < L.k THEN ShapeError
    ELSE <<shape[1], (shape[2] - L.k) \div L.stride + 1, (shape[3] - L.k) \div L.stride + 1>>

\* eqx.nn.Conv2d(in, out, kernel_size): stride 1, no padding
Conv2d(shape, L) ==
    IF Len(shape) # 3 \/ shape[1] # L.cin \/ shape[2] < L.k \/ shape[3] < L.k THEN ShapeError
    ELSE <<L.cout, (shape[2] - L.k) \div L.stride + 1, (shape[3] - L.k) \div L.stride + 1>>

\* eqx.nn.ConvTranspose2d(in, out, kernel_size, stride): no padding
ConvTranspose2d(shape, L) ==
    IF Len(shape) # 3 \/ shape[1] # L.cin THEN ShapeError
    ELSE <<L.cout, (shape[2] - 1) * L.stride + L.k, (shape[3] - 1) * L.stride + L.k>>

\* the shape layer L returns for an array of the given shape
ApplyLayer(L, shape) ==
    CASE L.op = "Conv2d" -> Conv2d(shape, L)
      [] L.op = "MaxPool2d" -> MaxPool2d(shape, L)
      [] L.op = "ConvTranspose2d" -> ConvTranspose2d(shape, L)
      [] L.op = "Linear" -> (IF shape = <<L.cin>> THEN <<L.cout>> ELSE ShapeError)
      [] L.op = "rearrange" ->
           (IF Len(shape) = 1 /\ shape[1] % (L.k * L.k) = 0
            THEN <<shape[1] \div (L.k * L.k), L.k, L.k>> ELSE ShapeError)
      [] OTHER -> shape

\* the shape of a + b under the array library's broadcasting
BroadcastShape(a, b) ==
    IF Len(a) # Len(b) \/ \E d \in DOMAIN a : a[d] # b[d] /\ a[d] # 1 /\ b[d] # 1
    THEN ShapeError
    ELSE [d \in DOMAIN a |-> IF a[d] = 1 THEN b[d] ELSE a[d]]

\* image sides a state is tried with
SampleSides == {IMAGE_SIZE - 6, IMAGE_SIZE - 1, IMAGE_SIZE, IMAGE_SIZE + 1}

VectorFieldInit ==
    /\ pc = "encode"
    /\ arg \in [t : {0, 1, 8}, y : {1, 2} \X SampleSides \X SampleSides]
    /\ ret = [y |-> arg.y, te |-> <<>>, layer |-> 1]
    /\ notebook = "none" /\ key = 0 /\ steps = 0 /\ BATCH_SIZE = 0
    /\ LEARN_RATE = Real(0) /\ i = 0 /\ train_key = 0 /\ inds = <<>>
    /\ x = <<>> /\ y = <<>> /\ model = <<>> /\ nn = None /\ opt_state = None
    /\ grad = None /\ updates = None /\ loss_value = None /\ loss_log = <<>>
    /\ emitted = <<>> /\ inds_log = <<>> /\ prev_run = None
    /\ y_test = <<>> /\ test_outputs = <<>> /\ y_test_predictions = <<>>
    /\ confusion_matrix = None

\* y = self.encode(y): the next layer of the encoder
Encode ==
    /\ pc = "encode"
    /\ ApplyLayer(encode_layers[ret.layer], ret.y) # ShapeError
    /\ ret' = [ret EXCEPT !.y = ApplyLayer(encode_layers[ret.layer], ret.y),
                          !.te = IF ret.layer = Len(encode_layers) THEN <<1>> ELSE @,
                          !.layer = IF ret.layer = Len(encode_layers) THEN 1 ELSE @ + 1]
    /\ pc' = (IF ret.layer = Len(encode_layers) THEN "time_encode" ELSE "encode")
    /\ UNCHANGED <<arg, trainVars, evalVars>>

\* te = self.time_encode(np.array([t])): the next layer of the time encoder
TimeEncode ==
    /\ pc = "time_encode"
    /\ ApplyLayer(time_encode_layers[ret.layer], ret.te) # ShapeError
    /\ ret' = [ret EXCEPT !.te = ApplyLayer(time_encode_layers[ret.layer], ret.te),
                          !.layer = IF ret.layer = Len(time_encode_layers) THEN 1 ELSE @ + 1]
    /\ pc' = (IF ret.layer = Len(time_encode_layers) THEN "add" ELSE "time_encode")
    /\ UNCHANGED <<arg, trainVars, evalVars>>

\* y = y + te
AddTimeEncoding ==
    /\ pc = "add"
    /\ BroadcastShape(ret.y, ret.te) # ShapeError
    /\ ret' = [ret EXCEPT !.y = BroadcastShape(ret.y, ret.te)]
    /\ pc' = "decode"
    /\ UNCHANGED <<arg, trainVars, evalVars>>

\* y = self.decode(y): the next layer of the decoder; return y
Decode ==
    /\ pc = "decode"
    /\ ApplyLayer(decode_layers[ret.layer], ret.y) # ShapeError
    /\ ret' = [ret EXCEPT !.y = ApplyLayer(decode_layers[ret.layer], ret.y),
                          !.layer = IF ret.layer = Len(decode_layers) THEN @ ELSE @ + 1]
    /\ pc' = (IF ret.layer = Len(decode_layers) THEN "vf_done" ELSE "decode")
    /\ UNCHANGED <<arg, trainVars, evalVars>>

\* a layer, or the addition, raises on the shape it is given
LayerRaises ==
    /\ \/ pc = "encode" /\ ApplyLayer(encode_layers[ret.layer], ret.y) = ShapeError
       \/ pc = "time_encode" /\ ApplyLayer(time_encode_layers[ret.layer], ret.te) = ShapeError
       \/ pc = "add" /\ BroadcastShape(ret.y, ret.te) = ShapeError
       \/ pc = "decode" /\ ApplyLayer(decode_layers[ret.layer], ret.y) = ShapeError
    /\ pc' = "vf_error"
    /\ UNCHANGED <<arg, ret, trainVars, evalVars>>

VectorFieldNext == Encode \/ TimeEncode \/ AddTimeEncoding \/ Decode \/ LayerRaises

SpecVectorField == VectorFieldInit /\ [][VectorFieldNext]_vars

\* C12: for a state y of shape (1,28,28) and any time t the vector field
\* raises nowhere; the encoder output and the reshaped time embedding both
\* have shape (4,7,7) when they are added, and the array returned has the
\* shape of y.
C12_VectorFieldKeepsShape ==
    arg.y = <<1, IMAGE_SIZE, IMAGE_SIZE>> =>
        /\ pc # "vf_error"
        /\ pc = "add" => ret.y = <<4, 7, 7>> /\ ret.te = <<4, 7, 7>>
        /\ pc = "vf_done" => ret.y = arg.y

C12_Witness ==
    /\ pc = "vf_done"
    /\ arg.y = <<1, IMAGE_SIZE, IMAGE_SIZE>>
    /\ arg.t = 8
    /\ ret.te = <<4, 7, 7>>
    /\ ret.y = <<1, IMAGE_SIZE, IMAGE_SIZE>>

\* new holds, entry by entry, old - learn_rate * gradient, in the arrays and
\* shapes of old
IsGradientStep(new, old, gradient, learn_rate) ==
    /\ Structure(new) = Structure(old)
    /\ \A l \in DOMAIN old :
          /\ DOMAIN new[l].data = DOMAIN old[l].data
          /\ \A e \in DOMAIN old[l].data :
                new[l].data[e] = FSub(old[l].data[e], FMul(learn_rate, gradient[l].data[e]))

\* C13: the manual optimiser sets every entry of every parameter array to
\* the old entry minus learn_rate times the gradient entry and changes
\* nothing else; a second call follows the same rule from what the first
\* returned, so nothing but the parameters, the gradient and the learning
\* rate enters the result.
C13_OptimiserIsPlainGradientStep ==
    /\ pc \in {"optimiser_again", "optimiser_done"} =>
          /\ IsGradientStep(ret.once, ret.before, arg.gradient, arg.learn_rate)
          /\ pc = "optimiser_again" => arg.model_parameters = ret.once
    /\ pc = "optimiser_done" =>
          /\ IsGradientStep(ret.twice, ret.once, arg.gradient, arg.learn_rate)
          /\ arg.model_parameters = ret.twice

\* two calls with a non-zero gradient and a non-zero rate, each moving a
\* finite parameter
C13_Witness ==
    /\ pc = "optimiser_done"
    /\ arg.learn_rate = Fin(Scale \div 8)
    /\ arg.gradient[1].data[1] = Fin(-FMaxRaw)
    /\ ret.before[1].data[1] = Fin(-3)
    /\ IsFin(ret.twice[1].data[1])
    /\ ret.once[1].data[1] # ret.before[1].data[1]
    /\ ret.twice[1].data[1] # ret.once[1].data[1]

(***************************************************************************)
(* Training runs long enough to pass a second emission of the loss.        *)
(***************************************************************************)
\* the largest step count of a long run
LongRun == 11

TrainLongInit ==
    /\ pc = "cell"
    /\ notebook \in {"equinox", "scratch", "node"}
    /\ steps \in 0 .. LongRun
    /\ BATCH_SIZE \in {PoolSize - 1, PoolSize + 1}
    /\ LEARN_RATE = Fin(Scale \div 8)
    /\ key = (IF notebook = "equinox" THEN 0 ELSE PRNGKey(SEED))
    /\ i = 0 /\ train_key = 0 /\ inds = <<>> /\ x = <<>> /\ y = <<>>
    /\ model = <<>> /\ nn = None /\ opt_state = None
    /\ grad = None /\ updates = None /\ loss_value = None /\ loss_log = <<>>
    /\ emitted = <<>> /\ inds_log = <<>> /\ prev_run = <<>>
    /\ y_test = <<>> /\ test_outputs = <<>> /\ y_test_predictions = <<>>
    /\ confusion_matrix = None
    /\ arg = None /\ ret = None

SpecLong == TrainLongInit /\ [][TrainNext]_vars

\* the steps among the first n that emit: one in every LOG_EVERY, rounded up
Emissions(n) == (n + LOG_EVERY - 1) \div LOG_EVERY

\* C14: the loss is emitted at step i exactly when i is a multiple of 10, so
\* after n completed steps there are ceil(n/10) emissions, the j-th made at
\* step 10(j-1); the value emitted is the loss that step computed from its
\* own batch and appended to the log.
C14_EmitsEveryTenthStep ==
    /\ pc \in InLoop \cup {"done"} =>
          /\ Len(emitted) = Emissions(i)
          /\ \A j \in DOMAIN emitted :
                /\ emitted[j][1] = LOG_EVERY * (j - 1)
                /\ emitted[j][1] + 1 \in DOMAIN loss_log
                /\ emitted[j][2] = loss_log[emitted[j][1] + 1]
    /\ pc = "done" => Len(emitted) = Emissions(steps)
    /\ pc \in {"update", "optimiser"} => loss_value = loss(model, x, y).value
    /\ pc = "emit" => Len(loss_log) = i + 1 /\ loss_log[i + 1] = loss_value

C14_Witness ==
    /\ pc = "done"
    /\ steps = LOG_EVERY + 1
    /\ Len(emitted) = 2
    /\ emitted[1][1] = 0
    /\ emitted[2][1] = LOG_EVERY
    /\ emitted[2][2] = loss_log[LOG_EVERY + 1]
    /\ emitted[2][2] # loss_log[LOG_EVERY]

(***************************************************************************)
(* Data preparation of the neural ODE notebook: the training images are    *)
(* grouped by digit, every group is cut to the length of the shortest, and *)
(* the groups become the time axis of the pairs.  An image is named by its *)
(* position in x_train.                                                    *)
(***************************************************************************)
\* the largest number of training images
DataSize == 23

\* x_train[y_train == c]: the images with label c, in dataset order
MaskSelect(labels, c) ==
    LET HasLabel(n) == labels[n + 1] = c
    IN  SelectSeq(arange(Len(labels)), HasLabel)

\* the last n images of a group
TruncateTail(images, n) == SubSeq(images, Len(images) - n + 1, Len(images))

\* x_train_grouped[i][:minlength]
Truncate(images, n) == SubSeq(images, 1, n)

\* the groups laid out one after another and cut into rows
RearrangeByReshape(groups) ==
    [n \in 1 .. Len(groups[1]) |->
        [d \in 1 .. Len(groups) |->
            groups[(((n - 1) * Len(groups) + d - 1) \div Len(groups[1])) + 1]
                  [(((n - 1) * Len(groups) + d - 1) % Len(groups[1])) + 1]]]

\* einops.rearrange(x_train_grouped, "numbers N b x y -> N (b numbers) () x y")
\* with b = 1: row n holds image n of every group, in group order
rearrange(groups) ==
    [n \in 1 .. Len(groups[1]) |-> [d \in 1 .. Len(groups) |-> groups[d][n]]]

\* np.min(np.array(lengths))
Min(s) == CHOOSE m \in Range(s) : \A k \in Range(s) : m <= k

\* label sequences in which every digit occurs: a stride through the digits
\* with one label replaced
SampleDatasets ==
    {[n \in 1 .. len |-> IF n = p THEN q ELSE (m * n + o) % NUM_CLASSES] :
        len \in {DataSize - 1, DataSize}, m \in {1, 3}, o \in {0, 5},
        p \in {3, 12, DataSize}, q \in {0, NUM_CLASSES - 1}}

GroupingInit ==
    /\ pc = "group"
    /\ arg \in [y_train : SampleDatasets]
    /\ ret = [i |-> 0, x_train_grouped |-> <<>>, lengths |-> <<>>, minlength |-> 0,
              X0 |-> <<>>, XT |-> <<>>]
    /\ notebook = "none" /\ key = 0 /\ steps = 0 /\ BATCH_SIZE = 0
    /\ LEARN_RATE = Real(0) /\ i = 0 /\ train_key = 0 /\ inds = <<>>
    /\ x = <<>> /\ y = <<>> /\ model = <<>> /\ nn = None /\ opt_state = None
    /\ grad = None /\ updates = None /\ loss_value = None /\ loss_log = <<>>
    /\ emitted = <<>> /\ inds_log = <<>> /\ prev_run = None
    /\ y_test = <<>> /\ test_outputs = <<>> /\ y_test_predictions = <<>>
    /\ confusion_matrix = None

\* for i in range(10): x_train_grouped.append(x_train[y_train==i]);
\*                     lengths.append(x_train_grouped[i].shape[0])
GroupClass ==
    /\ pc = "group"
    /\ ret.i < NUM_CLASSES
    /\ ret' = [ret EXCEPT
                 !.x_train_grouped = Append(@, MaskSelect(arg.y_train, ret.i)),
                 !.lengths = Append(@, Len(MaskSelect(arg.y_train, ret.i))),
                 !.i = @ + 1]
    /\ UNCHANGED <<pc, arg, trainVars, evalVars>>

\* minlength = np.min(np.array(lengths))
MinLength ==
    /\ pc = "group"
    /\ ret.i = NUM_CLASSES
    /\ ret' = [ret EXCEPT !.minlength = Min(ret.lengths), !.i = 0]
    /\ pc' = "truncate"
    /\ UNCHANGED <<arg, trainVars, evalVars>>

\* for i in range(10): x_train_grouped[i] = x_train_grouped[i][:minlength]
TruncateClass ==
    /\ pc = "truncate"
    /\ ret.i < NUM_CLASSES
    /\ ret' = [ret EXCEPT
                 !.x_train_grouped[ret.i + 1] = Truncate(@, ret.minlength),
                 !.i = @ + 1]
    /\ UNCHANGED <<pc, arg, trainVars, evalVars>>

\* x_train_grouped = einops.rearrange(x_train_grouped, ...)
Rearrange ==
    /\ pc = "truncate"
    /\ ret.i = NUM_CLASSES
    /\ ret' = [ret EXCEPT !.x_train_grouped = rearrange(@)]
    /\ pc' = "split"
    /\ UNCHANGED <<arg, trainVars, evalVars>>

\* X0 = x_train_grouped[:,0]; XT = x_train_grouped[:,1:]
SplitPairs ==
    /\ pc = "split"
    /\ ret' = [ret EXCEPT
                 !.X0 = [n \in DOMAIN ret.x_train_grouped |-> ret.x_train_grouped[n][1]],
                 !.XT = [n \in DOMAIN ret.x_train_grouped |->
                            Tail(ret.x_train_grouped[n])]]
    /\ pc' = "grouped"
    /\ UNCHANGED <<arg, trainVars, evalVars>>

GroupingNext == GroupClass \/ MinLength \/ TruncateClass \/ Rearrange \/ SplitPairs

SpecGrouping == GroupingInit /\ [][GroupingNext]_vars

\* the number of training images with label c
ClassCount(labels, c) == Cardinality({n \in DOMAIN labels : labels[n] = c})

\* the k-th image with label c in dataset order
KthOfClass(labels, c, k) ==
    CHOOSE n \in 0 .. (Len(labels) - 1) :
        /\ labels[n + 1] = c
        /\ Cardinality({m \in 1 .. n : labels[m] = c}) = k - 1

\* C15: once the groups are cut, each of the 10 digit classes holds exactly
\* minlength images, minlength being the smallest number of images any
\* class has in the training set; the images kept are the first minlength
\* of the class in dataset order.
C15_ClassesCutToShortest ==
    pc = "truncate" /\ ret.i = NUM_CLASSES =>
        /\ Len(ret.x_train_grouped) = NUM_CLASSES
        /\ \A c \in Classes : ret.minlength <= ClassCount(arg.y_train, c)
        /\ \E c \in Classes : ret.minlength = ClassCount(arg.y_train, c)
        /\ \A c \in Classes :
              /\ Len(ret.x_train_grouped[c + 1]) = ret.minlength
              /\ \A k \in 1 .. ret.minlength :
                    ret.x_train_grouped[c + 1][k] = KthOfClass(arg.y_train, c, k)

\* a class with more images than the shortest has been cut
C15_Witness ==
    /\ pc = "truncate" /\ ret.i = NUM_CLASSES
    /\ ret.minlength = 2
    /\ \E c \in Classes : ret.lengths[c + 1] = 4
    /\ \E c \in Classes : ret.lengths[c + 1] = 2

\* C20: after the rearrangement x_train_grouped[n, d] is a training image
\* with label d, for every pair n and every d in 0..9; so every X0[n] is an
\* image of digit 0 and every XT[n, k], k in 0..8, an image of digit k+1.
C20_PairsFollowTheDigits ==
    /\ pc \in {"split", "grouped"} =>
          /\ Len(ret.x_train_grouped) = ret.minlength
          /\ \A n \in DOMAIN ret.x_train_grouped :
                /\ Len(ret.x_train_grouped[n]) = NUM_CLASSES
                /\ \A d \in Classes :
                      arg.y_train[ret.x_train_grouped[n][d + 1] + 1] = d
    /\ pc = "grouped" =>
          /\ Len(ret.X0) = ret.minlength /\ Len(ret.XT) = ret.minlength
          /\ \A n \in DOMAIN ret.X0 : arg.y_train[ret.X0[n] + 1] = 0
          /\ \A n \in DOMAIN ret.XT :
                /\ Len(ret.XT[n]) = NUM_CLASSES - 1
                /\ \A k \in 0 .. (NUM_CLASSES - 2) :
                      arg.y_train[ret.XT[n][k + 1] + 1] = k + 1

C20_Witness ==
    /\ pc = "grouped"
    /\ Len(ret.X0) = 2
    /\ ret.X0[1] # ret.X0[2]
    /\ ret.XT[2][NUM_CLASSES - 1] > ret.XT[1][NUM_CLASSES - 1]

(***************************************************************************)
(* The order of the operations of a training step.                         *)
(***************************************************************************)
\* the batch held in x and y is the one the indices in inds select
BatchIsSliced ==
    /\ x = [j \in DOMAIN inds |->
               IF notebook = "node" THEN X0(inds[j]) ELSE x_train_flat(inds[j])]
    /\ y = [j \in DOMAIN inds |->
               IF notebook = "node" THEN XT(inds[j]) ELSE y_train_1hot(inds[j])]

\* each operation of a step is followed by the next one of the order, and
\* each changes what it is there to change and nothing the later ones write
StepInOrder ==
    /\ pc = "loop" => pc' \in {"fold", "done"}
    /\ pc = "fold" => pc' = "choice"
    /\ pc = "choice" => pc' \in {"slice", "failed"}
    /\ pc = "slice" => pc' = "loss" /\ BatchIsSliced'
    /\ pc = "loss" =>
          /\ pc' \in {"update", "optimiser"}
          /\ loss_value' = loss(model, x, y).value /\ grad' = loss(model, x, y).grad
    /\ pc = "update" => pc' = "apply" /\ model' = model
    /\ pc = "apply" => pc' = "append" /\ model' = apply_updates(model, updates)
    /\ pc = "optimiser" => pc' = "append" /\ model' = optimiser(model, grad, LEARN_RATE)
    /\ pc = "append" => pc' = "emit" /\ loss_log' = Append(loss_log, loss_value)
    /\ pc = "emit" => pc' = "loop" /\ i' = i + 1
    /\ pc \in InLoop =>
          /\ inds' # inds => pc = "choice"
          /\ (x' # x \/ y' # y) => pc = "slice"
          /\ (loss_value' # loss_value \/ grad' # grad) => pc = "loss"
          /\ (updates' # updates \/ opt_state' # opt_state) => pc = "update"
          /\ model' # model => pc \in {"apply", "optimiser"}
          /\ loss_log' # loss_log => pc = "append"
          /\ (emitted' # emitted \/ i' # i) => pc = "emit"

\* when a step starts, every step before it has drawn, updated, logged and
\* emitted
StepsComplete ==
    pc = "loop" =>
        /\ Len(inds_log) = i /\ Len(loss_log) = i
        /\ Len(emitted) = Emissions(i)
        /\ notebook \in {"equinox", "node"} => opt_state.count = i

\* C16: within every training step the batch indices are drawn, then the
\* inputs and targets sliced, then loss and gradient computed, then the
\* optimiser update computed, then the update applied to the parameters,
\* then the loss appended to the log, and only then the loss emitted (on
\* multiples of 10); the next step starts after all of that.
C16_StepOrder == [][StepInOrder]_vars /\ []StepsComplete

C16_Witness ==
    /\ notebook = "node"
    /\ pc = "loop"
    /\ i = 2
    /\ opt_state.count = 2
    /\ Len(loss_log) = 2
    /\ Len(emitted) = 1
    /\ model # Autoencoder(key)

(***************************************************************************)
(* Training runs that diverge: a learning rate so large that the first     *)
(* update overflows.                                                       *)
(***************************************************************************)
TrainDivergingInit ==
    /\ pc = "cell"
    /\ notebook \in {"equinox", "scratch", "node"}
    /\ steps \in 0 .. MaxSteps
    /\ BATCH_SIZE \in {1, PoolSize, PoolSize + 1}
    /\ LEARN_RATE \in {Real(1), Fin(FMaxRaw)}
    /\ key = (IF notebook = "equinox" THEN 0 ELSE PRNGKey(SEED))
    /\ i = 0 /\ train_key = 0 /\ inds = <<>> /\ x = <<>> /\ y = <<>>
    /\ model = <<>> /\ nn = None /\ opt_state = None
    /\ grad = None /\ updates = None /\ loss_value = None /\ loss_log = <<>>
    /\ emitted = <<>> /\ inds_log = <<>> /\ prev_run = <<>>
    /\ y_test = <<>> /\ test_outputs = <<>> /\ y_test_predictions = <<>>
    /\ confusion_matrix = None
    /\ arg = None /\ ret = None

SpecDiverging == TrainDivergingInit /\ [][TrainNext]_vars /\ WF_vars(TrainNext)

\* some parameter is NaN
HasNaN(params) == \E l \in DOMAIN params : \E e \in DOMAIN params[l].data : IsNaN(params[l].data[e])

\* inside a run a parameter that is NaN is NaN after every step, a loss
\* computed from parameters with a NaN is NaN, and what is logged is that loss
NaNStays ==
    pc \in InLoop =>
        /\ \A l \in DOMAIN model : \A e \in DOMAIN model[l].data :
              IsNaN(model[l].data[e]) => IsNaN(model'[l].data[e])
        /\ pc = "loss" /\ HasNaN(model) => IsNaN(loss_value')
        /\ pc = "append" => loss_log' = Append(loss_log, loss_value)
        /\ HasNaN(model) => pc' # "failed"

\* C17: once a parameter is NaN the run neither stops nor recovers: it
\* still ends after the step count asked for, with that many losses logged;
\* the parameter is NaN after every later step and every loss logged later
\* is NaN.
C17_NaNNeitherStopsNorRecovers ==
    /\ [][NaNStays]_vars
    /\ [](pc \in InLoop /\ HasNaN(model) =>
             <>(pc = "done" /\ HasNaN(model) /\ Len(loss_log) = steps))
    /\ [](pc = "loop" /\ HasNaN(model) =>
             \A k \in DOMAIN loss_log : IsNaN(loss_log[k]) => 
                 \A m \in k .. Len(loss_log) : IsNaN(loss_log[m]))

C17_Witness ==
    /\ notebook = "scratch"
    /\ pc = "done"
    /\ steps = MaxSteps
    /\ HasNaN(model)
    /\ Len(loss_log) = MaxSteps
    /\ IsFin(loss_log[1])
    /\ IsNaN(loss_log[MaxSteps])

(***************************************************************************)
(* Failures inside a training step.                                        *)
(***************************************************************************)
\* a failed run stays as the failure left it, and the failure itself writes
\* neither the parameters nor the loss log
FailureIsFinal ==
    /\ pc = "failed" => UNCHANGED vars
    /\ pc' = "failed" =>
          UNCHANGED <<model, nn, opt_state, loss_log, emitted, inds_log, i>>

\* C18: a failure raised inside a training step (here the draw without
\* replacement of a batch larger than the pool) ends the run at that step:
\* the step goes no further, no later step executes, nothing is retried,
\* and the parameters and the loss log stay as they were when it was raised.
C18_FailureEndsRun ==
    /\ [][FailureIsFinal]_vars
    /\ [](BATCH_SIZE > PoolSize => pc \notin AfterDraw /\ (pc = "done" => steps = 0))
    /\ [](pc = "failed" =>
             /\ BATCH_SIZE > PoolSize
             /\ i < steps
             /\ Len(loss_log) = i /\ Len(inds_log) = i /\ inds = <<>>)

C18_Witness ==
    /\ pc = "failed"
    /\ notebook = "node"
    /\ steps = MaxSteps
    /\ i = 0
    /\ model = Autoencoder(key)
    /\ opt_state = OptimInit(model)
    /\ loss_log = <<>>

(***************************************************************************)
(* The optimiser state of the library optimiser.                           *)
(***************************************************************************)
\* positions between the return of one make_step and the next call's update
BetweenUpdates == {"append", "emit", "loop", "fold", "choice", "slice", "loss"}

\* the optimiser state is made at the head of train from the parameters,
\* and after that only the optimiser call writes it, from the state and the
\* parameters the step before left
StateIsThreaded ==
    notebook \in {"equinox", "node"} =>
        /\ pc = "train" => opt_state' = OptimInit(model) /\ model' = model
        /\ pc \in BetweenUpdates => opt_state' = opt_state /\ model' = model
        /\ pc = "update" =>
              /\ opt_state' = OptimUpdate(grad, opt_state, model,
                                          Rate(opt_state.count)).opt_state
              /\ model' = model
        /\ pc = "apply" => opt_state' = opt_state /\ model' = apply_updates(model, updates)

\* the state has counted every update of the run: it was never made anew
StateCountsUpdates ==
    notebook \in {"equinox", "node"} /\ pc \in InLoop =>
        opt_state.count = (IF pc \in {"apply", "append", "emit"} THEN i + 1 ELSE i)

\* C19: in the runs with the library optimiser the optimiser state is
\* initialised once per call of train, before the first step, and threaded:
\* the parameters and the optimiser state a step starts from are the ones
\* the step before returned, and nothing writes them in between.
C19_OptimiserStateThreaded == [][StateIsThreaded]_vars /\ []StateCountsUpdates

C19_Witness ==
    /\ notebook = "equinox"
    /\ pc = "update"
    /\ i = 2
    /\ opt_state.count = 2
    /\ opt_state.mu # ZerosLike(model)
    /\ Len(loss_log) = 2

(***************************************************************************)
(* The batch of a training step.                                           *)
(***************************************************************************)
\* positions of a step at which the batch has been sliced
AfterSlice == AfterDraw \ {"slice"}

\* the training sample an input belongs to, and the one a target belongs to
SampleOfInput(xj) ==
    {n \in 0 .. (PoolSize - 1) :
        xj = (IF notebook = "node" THEN X0(n) ELSE x_train_flat(n))}

SampleOfTarget(yj) ==
    {n \in 0 .. (PoolSize - 1) :
        yj = (IF notebook = "node" THEN XT(n) ELSE y_train_1hot(n))}

\* C21: in every training step of every notebook the inputs and the
\* targets are sliced with the same index vector: at every position j of
\* the batch the input and the target are those of training sample inds[j].
C21_InputsAndTargetsPaired ==
    pc \in AfterSlice =>
        /\ Len(x) = Len(inds) /\ Len(y) = Len(inds)
        /\ \A j \in DOMAIN inds :
              /\ SampleOfInput(x[j]) = {inds[j]}
              /\ SampleOfTarget(y[j]) = {inds[j]}

C21_Witness ==
    /\ notebook = "node"
    /\ pc = "loss"
    /\ i = 1
    /\ BATCH_SIZE = PoolSize
    /\ inds # arange(PoolSize)
    /\ SampleOfInput(x[1]) = {inds[1]}
    /\ SampleOfTarget(y[PoolSize]) = {inds[PoolSize]}

(***************************************************************************)
(* The from-scratch training cell with the batch size its source assigns.  *)
(* The training set stands at ScratchPool samples, enough for one batch;   *)
(* the iteration count is the one asked for in the initial state.          *)
(***************************************************************************)
SCRATCH_BATCH_SIZE == 64

ScratchPool == 66

ScratchCellInit ==
    /\ pc = "cell"
    /\ notebook = "scratch"
    /\ steps \in 0 .. MaxSteps
    /\ BATCH_SIZE = 0
    /\ LEARN_RATE \in SampleRates
    /\ key = PRNGKey(SEED)
    /\ i = 0 /\ train_key = 0 /\ inds = <<>> /\ x = <<>> /\ y = <<>>
    /\ model = <<>> /\ nn = None /\ opt_state = None
    /\ grad = None /\ updates = None /\ loss_value = None /\ loss_log = <<>>
    /\ emitted = <<>> /\ inds_log = <<>> /\ prev_run = <<>>
    /\ y_test = <<>> /\ test_outputs = <<>> /\ y_test_predictions = <<>>
    /\ confusion_matrix = None
    /\ arg = None /\ ret = None

\* key = jr.fold_in(key,1); nn = SimpleNetwork(28*28,100,10,key);
\* nn_params = [...]; TRAIN_ITERS = 1000; BATCH_SIZE = 64; loss_log = []
ScratchCell ==
    /\ pc = "cell"
    /\ key' = fold_in(key, 1)
    /\ nn' = ScratchSimpleNetwork(InputSize, HiddenSize, NUM_CLASSES, key')
    /\ model' = ScratchParams(nn')
    /\ BATCH_SIZE' = SCRATCH_BATCH_SIZE
    /\ loss_log' = <<>>
    /\ inds_log' = <<>>
    /\ i' = 0
    /\ pc' = "loop"
    /\ UNCHANGED <<notebook, steps, LEARN_RATE, train_key, inds, x, y, opt_state,
                   grad, updates, loss_value, emitted, prev_run, trainFrame>>

\* inds = jr.choice(train_key,np.arange(60000),(BATCH_SIZE,),replace=False)
ScratchChoice ==
    /\ pc = "choice"
    /\ BATCH_SIZE <= ScratchPool
    /\ inds' = choice(train_key, ScratchPool, BATCH_SIZE)
    /\ inds_log' = Append(inds_log, inds')
    /\ pc' = "slice"
    /\ UNCHANGED <<config, key, i, train_key, x, y, model, nn, opt_state, grad,
                   updates, loss_value, loss_log, emitted, prev_run, trainFrame>>

ScratchCellNext ==
    \/ ScratchCell \/ LoopNext \/ LoopExit \/ FoldKey \/ ScratchChoice \/ Slice
    \/ Loss \/ Optimiser \/ AppendLoss \/ Emit \/ Rerun

SpecScratchCell == ScratchCellInit /\ [][ScratchCellNext]_vars

\* C22: in the from-scratch training loop each step draws exactly 32
\* (input, target) pairs.
C22_StepDrawsThirtyTwoPairs ==
    pc \in AfterSlice => Len(inds) = 32 /\ Len(x) = 32 /\ Len(y) = 32

(***************************************************************************)
(* The loss log against a replay of the run: the parameters on entry to    *)
(* each step are recomputed from the parameters the cell starts with and   *)
(* the batches drawn so far.                                               *)
(***************************************************************************)
\* the parameters the run starts with
InitialModel ==
    CASE notebook = "equinox" ->
            EquinoxSimpleNetwork(InputSize, HiddenSize, NUM_CLASSES, key)
      [] notebook = "scratch" ->
            ScratchParams(ScratchSimpleNetwork(InputSize, HiddenSize, NUM_CLASSES, key))
      [] notebook = "node" -> Autoencoder(key)

\* the batch of the k-th step made (k = 1 for step 0)
BatchOf(k) ==
    [x |-> [j \in DOMAIN inds_log[k] |->
               IF notebook = "node" THEN X0(inds_log[k][j])
               ELSE x_train_flat(inds_log[k][j])],
     y |-> [j \in DOMAIN inds_log[k] |->
               IF notebook = "node" THEN XT(inds_log[k][j])
               ELSE y_train_1hot(inds_log[k][j])]]

\* one whole step from the parameters and optimiser state before it: the
\* loss and gradient l on the batch, then the update
ReplayUpdate(before, l) ==
    IF notebook = "scratch"
    THEN [model |-> optimiser(before.model, l.grad, LEARN_RATE),
          opt_state |-> None,
          loss |-> l.value]
    ELSE [model |-> apply_updates(before.model,
                       OptimUpdate(l.grad, before.opt_state, before.model,
                                   Rate(before.opt_state.count)).updates),
          opt_state |-> OptimUpdate(l.grad, before.opt_state, before.model,
                                    Rate(before.opt_state.count)).opt_state,
          loss |-> l.value]

ReplayStep(before, batch) ==
    CHOOSE after \in {ReplayUpdate(before, l) :
                         l \in {loss(before.model, batch.x, batch.y)}} : TRUE

\* the parameters and the optimiser state after k whole steps, with the loss
\* that value_and_grad returned in the k-th step
Replay ==
    LET after[k \in 0 .. Len(inds_log)] ==
            IF k = 0
            THEN [model |-> InitialModel,
                  opt_state |-> IF notebook = "scratch" THEN None
                                ELSE OptimInit(InitialModel),
                  loss |-> None]
            ELSE CHOOSE r \in {ReplayStep(before, BatchOf(k)) :
                                  before \in {after[k - 1]}} : TRUE
    IN  after

\* the loss of the parameters on entry to the k-th step on that step's batch
LossOnEntry(k) == Replay[k].loss

\* the loss of the parameters the k-th step produces, on the same batch
LossOnExit(k) == loss(Replay[k].model, BatchOf(k).x, BatchOf(k).y).value

\* C23: the loss appended to the log at step i is the loss of the
\* parameters as they were on entry to step i, evaluated on step i's batch
\* (entry k of the log, k = i + 1), and not the loss recomputed from the
\* parameters the update of step i has produced.
C23_LoggedLossIsOfEntryParameters ==
    /\ pc \in InLoop \cup {"done"} => Len(loss_log) <= Len(inds_log)
    /\ pc = "emit" =>
          LET replayed == Replay[i + 1]
          IN  /\ Len(loss_log) = i + 1
              /\ loss_log[i + 1] = replayed.loss
              /\ loss_log[i + 1] = loss_value
              /\ model = replayed.model
    /\ pc = "done" => \A k \in DOMAIN loss_log : loss_log[k] = LossOnEntry(k)

C23_Witness ==
    /\ pc = "emit"
    /\ i = 1
    /\ notebook = "equinox"
    /\ loss_log[2] = LossOnEntry(2)
    /\ LossOnEntry(2) # LossOnExit(2)
    /\ LossOnExit(2) = loss(model, x, y).value

(***************************************************************************)
(* The draw over the ranges the source writes.  The training cells are     *)
(* the ones above; the index vector is drawn from np.arange(60000), or     *)
(* np.arange(5421) in the neural ODE notebook, and the arrays it slices    *)
(* have the number of rows the notebooks record for them.                  *)
(***************************************************************************)
\* the rows of x_train, as the data cell documents them
TRAIN_SET_SIZE == 60000

\* the rows of X0 and XT (minlength), as the data cell prints them
GROUPED_ROWS == 5421

\* the argument of np.arange in the draws
PERCEPTRON_DRAW_RANGE == 60000
NODE_DRAW_RANGE == 5421

\* a range that stops at the size of the test set
DrawRangeOfTestSet(nb) == IF nb = "node" THEN NODE_DRAW_RANGE + 1 ELSE 10000

\* the range a notebook draws its indices from
DrawRange(nb) == IF nb = "node" THEN NODE_DRAW_RANGE ELSE PERCEPTRON_DRAW_RANGE

\* the rows of the arrays a notebook slices its batch from
PoolRows(nb) == IF nb = "node" THEN GROUPED_ROWS ELSE TRAIN_SET_SIZE

\* jr.choice(key, np.arange(n), (size,), replace=False) over a long range:
\* size entries of a key-selected permutation of 0 .. n-1, the permutation
\* being a walk from a key-selected start with a key-selected stride that
\* has no factor in common with 60000 or 5421
Strides == <<7, 11, 17, 19>>

choice_long(k, n, size) ==
    [j \in 1 .. size |->
        ((fold_in(k, 0) * fold_in(k, 1)) + (j - 1) * Strides[(fold_in(k, 2) % 4) + 1]) % n]

PoolInit ==
    /\ pc = "cell"
    /\ notebook \in {"equinox", "scratch", "node"}
    /\ steps \in 0 .. MaxSteps
    /\ BATCH_SIZE \in {1, 2, 32}
    /\ LEARN_RATE = Fin(Scale \div 8)
    /\ key = (IF notebook = "equinox" THEN 0 ELSE PRNGKey(SEED))
    /\ i = 0 /\ train_key = 0 /\ inds = <<>> /\ x = <<>> /\ y = <<>>
    /\ model = <<>> /\ nn = None /\ opt_state = None
    /\ grad = None /\ updates = None /\ loss_value = None /\ loss_log = <<>>
    /\ emitted = <<>> /\ inds_log = <<>> /\ prev_run = <<>>
    /\ y_test = <<>> /\ test_outputs = <<>> /\ y_test_predictions = <<>>
    /\ confusion_matrix = None
    /\ arg = None /\ ret = None

\* inds = jr.choice(train_key,np.arange(60000),(BATCH_SIZE,),replace=False)
\* (np.arange(5421) in the neural ODE notebook)
PoolChoice ==
    /\ pc = "choice"
    /\ inds' = choice_long(train_key, DrawRange(notebook), BATCH_SIZE)
    /\ inds_log' = Append(inds_log, inds')
    /\ pc' = "slice"
    /\ UNCHANGED <<config, key, i, train_key, x, y, model, nn, opt_state, grad,
                   updates, loss_value, loss_log, emitted, prev_run, trainFrame>>

PoolNext ==
    \/ EquinoxRunCell \/ NodeRunCell \/ ScratchRunCell \/ TrainHead
    \/ LoopNext \/ LoopExit \/ FoldKey \/ PoolChoice \/ Slice \/ Loss
    \/ MakeStepUpdate \/ MakeStepApply \/ Optimiser \/ AppendLoss \/ Emit \/ Rerun

SpecPool == PoolInit /\ [][PoolNext]_vars

MaxStepSize == 3

solverFrame == <<notebook, key, steps, BATCH_SIZE, LEARN_RATE, i, train_key, inds, x, y,
                 nn, opt_state, grad, updates, loss_value, loss_log, emitted,
                 inds_log, prev_run, evalVars>>

\* self.update(t, y, args): the vector field of the autoencoder, a slope
\* selected by the parameters, the time and the state
VectorField(params, t, state) ==
    Real(((TreeRawSum(params) + t + RawOf(state)) % 5) - 2)

\* an integration that starts one time unit before the first save time
StartBeforeFirstSave(ts) == 2 * (ts[1] - 1)

\* t0=ts[0], t1=ts[-1], dt0=ts[1]-ts[0], in half units
StartTime(ts) == 2 * ts[1]
EndTime(ts) == 2 * ts[Len(ts)]
FirstStepSize(ts) == 2 * (ts[2] - ts[1])

\* the state at time s inside a step that starts at time t in state y0
\* with slope k
StateAt(s, t, y0, k) == FAdd(y0, FDiv(FMul(Real(s - t), k), Real(2)))

SolverInit ==
    /\ pc = "call"
    /\ model \in {Autoencoder(k) : k \in 1 .. 3}
    /\ arg \in {[n |-> n, x0 |-> X0(n)[1], xt |-> XT(n)] : n \in {0, PoolSize - 1}}
    /\ ret = None
    /\ notebook = "node" /\ key = 0 /\ steps = 0 /\ BATCH_SIZE = 0
    /\ LEARN_RATE = Real(0) /\ i = 0 /\ train_key = 0 /\ inds = <<>>
    /\ x = <<>> /\ y = <<>> /\ nn = None /\ opt_state = None
    /\ grad = None /\ updates = None /\ loss_value = None /\ loss_log = <<>>
    /\ emitted = <<>> /\ inds_log = <<>> /\ prev_run = None
    /\ y_test = <<>> /\ test_outputs = <<>> /\ y_test_predictions = <<>>
    /\ confusion_matrix = None

\* model(ts=np.arange(9),y0=y0): diffeqsolve starts at t0 in state y0
SolveStart ==
    /\ pc = "call"
    /\ ret' = [ts |-> arange(NODE_TIMES),
               t  |-> StartTime(arange(NODE_TIMES)),
               dt |-> FirstStepSize(arange(NODE_TIMES)),
               y  |-> arg.x0,
               ys |-> <<>>]
    /\ pc' = "step"
    /\ UNCHANGED <<model, arg, solverFrame>>

\* one accepted step: the controller accepts the size tried or a shorter
\* one and tries the same or a longer one next; the states at the save
\* times the step covers are stored
SolveStep ==
    /\ pc = "step"
    /\ ret.t < EndTime(ret.ts)
    /\ \E h \in {ret.dt, IF ret.dt > 1 THEN ret.dt - 1 ELSE 1} :
       \E next \in {h, IF h < MaxStepSize THEN h + 1 ELSE h} :
          LET tnext == IF ret.t + h > EndTime(ret.ts) THEN EndTime(ret.ts) ELSE ret.t + h
              k == VectorField(model, ret.t, ret.y)
              covered == Cardinality({j \in DOMAIN ret.ts : 2 * ret.ts[j] <= tnext})
          IN  ret' = [ret EXCEPT
                        !.t = tnext,
                        !.dt = next,
                        !.y = StateAt(tnext, ret.t, ret.y, k),
                        !.ys = [j \in 1 .. covered |->
                                   IF j <= Len(ret.ys) THEN ret.ys[j]
                                   ELSE StateAt(2 * ret.ts[j], ret.t, ret.y, k)]]
    /\ pc' = "step"
    /\ UNCHANGED <<model, arg, solverFrame>>

\* return solution.ys
SolveReturn ==
    /\ pc = "step"
    /\ ret.t = EndTime(ret.ts)
    /\ ret' = [xt_predicted |-> ret.ys]
    /\ pc' = "predicted"
    /\ UNCHANGED <<model, arg, solverFrame>>

\* np.mean((xt-xt_predicted)**2), the squared differences kept
TrajectoryLoss ==
    /\ pc = "predicted"
    /\ LET squares == [d \in DOMAIN arg.xt |->
                          FMul(FSub(arg.xt[d], ret.xt_predicted[d]),
                               FSub(arg.xt[d], ret.xt_predicted[d]))]
       IN  ret' = [xt_predicted |-> ret.xt_predicted,
                   squares |-> squares,
                   value |-> FDiv(FSum(squares), Real(Len(squares)))]
    /\ pc' = "returned"
    /\ UNCHANGED <<model, arg, solverFrame>>

SolverNext == SolveStart \/ SolveStep \/ SolveReturn \/ TrajectoryLoss

SpecSolver == SolverInit /\ [][SolverNext]_vars

\* C25: in the trajectory loss the predicted state at the first saved time
\* point is the initial state x0 itself whatever the parameters of the
\* model are (the first save time is the time the integration starts at),
\* so the first of the 9 predicted states, the one compared with the
\* digit-1 target, does not depend on the model.
C25_FirstPredictedStateIsInitialState ==
    /\ pc = "step" /\ ret.ys # <<>> => ret.ys[1] = arg.x0
    /\ pc \in {"predicted", "returned"} =>
          /\ Len(ret.xt_predicted) = NODE_TIMES
          /\ ret.xt_predicted[1] = X0(arg.n)[1]
    /\ pc = "returned" =>
          ret.squares[1] = FMul(FSub(XT(arg.n)[1], X0(arg.n)[1]),
                                FSub(XT(arg.n)[1], X0(arg.n)[1]))

C25_Witness ==
    /\ pc = "returned"
    /\ ret.xt_predicted[1] = arg.x0
    /\ ret.xt_predicted[2] # arg.x0
    /\ ret.xt_predicted[NODE_TIMES] # ret.xt_predicted[2]
    /\ FSub(arg.xt[1], ret.xt_predicted[1]) # Real(0)
    /\ model # Autoencoder(1)

=============================================================================
